---- MODULE Spec2Model ----
(***************************************************************************)
(* Freshness and synchronisation engine of relax-o-vision: the rate        *)
(* limited upstream Client, the in-memory LRU cache, the CacheManager's    *)
(* freshness metadata and the Scheduler's sync loop.                       *)
(*                                                                         *)
(* The specifications share the module, one per component:                 *)
(*   SpecClient     footballdata.Client.doRequest called by concurrent     *)
(*                  goroutines (time in seconds)                           *)
(*   SpecCache      cache.MemoryCache and its operations, with the         *)
(*                  histories of its evictions                             *)
(*   SpecCalls      cache.MemoryCache and its operations, with the         *)
(*                  history of what each call returned                     *)
(*   SpecCoord      cache.NewCache and CacheManager.Get, Set and Delete    *)
(*                  over the backend the factory built                     *)
(*   Spec           footballdata.Scheduler with CacheManager (time in      *)
(*                  days)                                                  *)
(*   SpecLifecycle  footballdata.Scheduler with Stop and the cancellation  *)
(*                  of its context                                         *)
(*   SpecSweep      SpecCalls with the cleanup goroutine of the cache      *)
(*                  scheduled fairly (its ticker keeps firing)             *)
(*   SpecSequential doRequest called in sequence, one call at a time       *)
(*   SpecCancel     SpecClient with the cancellation of the caller's       *)
(*                  context                                                *)
(*   SpecFresh      the Scheduler over a CacheManager whose backend is     *)
(*                  written and invalidated meanwhile                      *)
(*   SpecLargeTtl   Spec with CACHE_TTL_DAYS at the edge of time.Duration  *)
(*   SpecInvalidate the Scheduler with InvalidateEntity of a competition   *)
(*                  called at any moment                                   *)
(*   SpecEventually the Scheduler whose upstream and store recover: from    *)
(*                  the last day of the clock on, nothing fails            *)
(*   SpecRead       SpecFresh with the reads of CachedClient and with      *)
(*                  InvalidateEntity, no tick of the clock                 *)
(*   SpecOrder      the Scheduler over several competitions, configured    *)
(*                  or resolved upstream                                   *)
(*   SpecStop       SpecLifecycle with Stop called more than once          *)
(*   SpecStopping   SpecLifecycle with the sync in flight and the select   *)
(*                  of Start scheduled fairly                              *)
(*   SpecHub        websocket.Hub with its connections and broadcasts      *)
(***************************************************************************)
EXTENDS Integers, Sequences, FiniteSets, Bags, TLC

(***************************************************************************)
(* Bounds of the model                                                     *)
(***************************************************************************)
\* doRequest invocations in one run of SpecClient or SpecSequential
MaxCalls == 12
\* last second the clock of SpecClient reaches
ClientMaxTime == 7
\* last second the clock of SpecSequential reaches
SeqMaxTime == 66
\* websocket connections made in one run of SpecHub
MaxClients == 2
\* rooms the clients of SpecHub subscribe to
MaxRooms == 1
\* capacity of the Send channel of a websocket client in SpecHub
SendBuffer == 1
\* capacity the MemoryCache of SpecCache is constructed with
CacheCapacity == 2
\* largest ttl (in ticks of the cache clock) passed to MemoryCache.Set
MaxTTL == 1
\* last tick the clock of SpecCache reaches
CacheMaxTime == 2
\* largest number of days CACHE_TTL_DAYS is set to
MaxTtlDays == 1
\* last day the clock of Spec reaches
SchedMaxTime == 2
\* number of distinct payloads upstream answers with
NumPayloads == 1

\* the keys and values the callers of the MemoryCache use: one key more than
\* the cache holds
CacheKeys == 1..(CacheCapacity + 1)
CacheValues == {"x", "y"}

VARIABLES
    clientNow,      \* time.Now() seen by the Client, in seconds
    lastRequest,    \* Client.lastRequest
    sleepers,       \* goroutines inside time.Sleep of doRequest: a bag of
                    \* [seen |-> the lastRequest they read, wake |-> end of sleep]
    permits,        \* history: the times at which doRequest went on to the transport
    cacheNow,       \* time.Now() seen by the MemoryCache
    items,          \* MemoryCache.items: key -> [value, expiresAt]
    lru,            \* MemoryCache.lru: the keys of the list, front first
    done,           \* MemoryCache.done has been closed
    touchOrder,     \* history: stored keys by their last touch (a Get that hit
                    \* or a Set), most recent first
    insertOrder,    \* history: stored keys by their insertion, most recent first
    evicted,        \* history: what the step just taken evicted, NoEviction if nothing
    inserted,       \* history: the distinct new keys Set since the cache was
                    \* last empty, while nothing but such Sets has run
    history,        \* which histories are kept: "evictions" (touchOrder,
                    \* insertOrder, evicted, inserted), "calls" (reply) or
                    \* "invalidations" (invalidation)
    reply,          \* history: the Get, Set or sweep just made on the MemoryCache
                    \* and what it returned, NoReply after any other step
    newCache,       \* the call of cache.NewCache: its config and what it returned
    redis,          \* CacheManager.redis: the Cache it was built with, or NoCache
    store,          \* the entries of that backend: key -> [value, expiresAt]
    mgrReply,       \* history: the CacheManager call just made, what the backend
                    \* answered and what the call returned
    stopRequested,  \* Scheduler.stopChan has been closed
    ctxDone,        \* the context given to Scheduler.Start has been cancelled
    invalidation,   \* history: what has happened to the competition since
                    \* InvalidateEntity last returned for it
    schedNow,       \* time.Now() seen by Scheduler and CacheManager, in days
    CacheTTL,       \* the package variable CacheTTL, in days
    cacheMetadata,  \* the rows of table cache_metadata, a bag
    hasCacheManager,    \* Scheduler.cacheManager is not nil
    competitionCodes,   \* Scheduler.competitionCodes
    pc,             \* where the goroutine running Scheduler.Start is
    competitions,   \* runSync: the competitions of this tick
    ci,             \* runSync: index into competitions
    et,             \* runSync: index into EntityTypes, the sub-resource in hand
    payload,        \* the payload fetched for the entity in hand
    decision,       \* history: the last needsRefresh call of the Scheduler
    checked,        \* history, per entity and tick: "pending", "fresh" or "stale"
    failure,        \* history, per entity and tick: the first step that failed
    metaWrites,     \* history, per entity and tick: SetMetadata calls that wrote
    hubClients,     \* Hub.clients: the registered websocket clients
    hubRooms,       \* Hub.rooms: room -> the clients in it
    wsClient,       \* per connection: where its handler is, whether Client.Send
                    \* is closed, how many messages it holds, and
                    \* Client.Subscriptions
    hubFault        \* the panic that ended the process, "none" while it runs

clientVars == <<clientNow, lastRequest, sleepers, permits>>

cacheVars == <<cacheNow, items, lru, done, touchOrder, insertOrder, evicted,
               inserted, history, reply>>

mgrVars == <<newCache, redis, store, mgrReply>>

lifeVars == <<stopRequested, ctxDone>>

schedVars == <<schedNow, CacheTTL, cacheMetadata, hasCacheManager,
               competitionCodes, pc, competitions, ci, et, payload, decision,
               checked, failure, metaWrites>>

noteVars == <<invalidation>>

wsVars == <<hubClients, hubRooms, wsClient, hubFault>>

vars == <<clientVars, cacheVars, schedVars, mgrVars, lifeVars, noteVars, wsVars>>

\* what the actions of one component leave alone
notClientVars == <<cacheVars, schedVars, mgrVars, lifeVars, noteVars,
                 wsVars>>
notCacheVars == <<clientVars, schedVars, mgrVars, lifeVars, noteVars,
                 wsVars>>
notSchedVars == <<clientVars, cacheVars, mgrVars, lifeVars, noteVars,
                 wsVars>>
notMgrVars == <<clientVars, cacheVars, schedVars, lifeVars, noteVars,
                 wsVars>>
\* what the steps of a sync that the history of invalidations follows leave
\* alone
notSyncVars == <<clientVars, cacheVars, mgrVars, lifeVars, wsVars>>
notWsVars == <<clientVars, cacheVars, schedVars, mgrVars, lifeVars, noteVars>>

(***************************************************************************)
(* footballdata/client.go: the rate limiter of Client.doRequest            *)
(***************************************************************************)
requestsPerMinute == 10
\* time.Minute, in seconds
rateLimitDuration == 60
\* time.Time{}: the zero time, for which IsZero() holds
ZeroTime == -1

\* rateLimitDuration/requestsPerMinute (integer division of durations)
RequiredGap == rateLimitDuration \div requestsPerMinute

\* time.Since(c.lastRequest)
Elapsed == clientNow - lastRequest

\* doRequest that compares with the zero time as with any other
MustSleepAlsoFirst == clientNow - lastRequest < RequiredGap

\* the condition under which doRequest sleeps (lines 42-44)
MustSleep == lastRequest # ZeroTime /\ Elapsed < RequiredGap

\* doRequest that sleeps half of what is left of the gap
SleepDurationHalved == (RequiredGap - Elapsed) \div 2

\* sleepDuration (line 45)
SleepDuration == RequiredGap - Elapsed

InitClient ==
    /\ clientNow = 0
    /\ lastRequest = ZeroTime
    /\ sleepers = EmptyBag
    /\ permits = <<>>

CallsStarted == Len(permits) + BagCardinality(sleepers)

\* doRequest, lines 41-44 and 51-52 with no sleep: under the lock the caller
\* finds no previous request or a large enough gap, stores lastRequest and
\* goes on to the transport.
doRequestPass ==
    /\ CallsStarted < MaxCalls
    /\ ~MustSleep
    /\ lastRequest' = clientNow
    /\ permits' = Append(permits, clientNow)
    /\ UNCHANGED <<clientNow, sleepers, notClientVars>>

\* doRequest, lines 41-47: under the lock the caller computes sleepDuration
\* from lastRequest, releases the lock and starts to sleep.
doRequestSleep ==
    /\ CallsStarted < MaxCalls
    /\ MustSleep
    /\ sleepers' = sleepers (+) SetToBag({[seen |-> lastRequest,
                                           wake |-> clientNow + SleepDuration]})
    /\ UNCHANGED <<clientNow, lastRequest, permits, notClientVars>>

\* doRequest, lines 47-52: time.Sleep returns (no earlier than asked), the
\* caller takes the lock again, stores lastRequest without a second check
\* and goes on to the transport.
doRequestWake ==
    \E s \in BagToSet(sleepers) :
        /\ clientNow >= s.wake
        /\ sleepers' = sleepers (-) SetToBag({s})
        /\ lastRequest' = clientNow
        /\ permits' = Append(permits, clientNow)
        /\ UNCHANGED <<clientNow, notClientVars>>

\* one second passes
ClientTick ==
    /\ clientNow < ClientMaxTime
    /\ clientNow' = clientNow + 1
    /\ UNCHANGED <<lastRequest, sleepers, permits, notClientVars>>

NextClient ==
    \/ doRequestPass
    \/ doRequestSleep
    \/ doRequestWake
    \/ ClientTick

\* one goroutine calls doRequest again and again, as the Scheduler does: a
\* call begins when the one before it has left the rate limiter
NoCallInLimiter == sleepers = EmptyBag

SeqCallPasses == NoCallInLimiter /\ doRequestPass
SeqCallSleeps == NoCallInLimiter /\ doRequestSleep

\* the clock of SpecSequential goes in steps of half the gap
SeqStep == RequiredGap \div 2

SeqTick ==
    /\ clientNow + SeqStep <= SeqMaxTime
    /\ clientNow' = clientNow + SeqStep
    /\ UNCHANGED <<lastRequest, sleepers, permits, notClientVars>>

NextSequential ==
    \/ SeqCallPasses
    \/ SeqCallSleeps
    \/ doRequestWake
    \/ SeqTick

(***************************************************************************)
(* cache/memory.go: MemoryCache, the in-memory LRU cache                   *)
(***************************************************************************)
\* the capacity NewMemoryCache falls back to (line 29)
DefaultMaxSize == 1000

\* NewMemoryCache, lines 28-30: the capacity the cache is constructed with
NewMemoryCacheMaxSize(size) == IF size <= 0 THEN DefaultMaxSize ELSE size

\* MemoryCache.maxSize
maxSize == NewMemoryCacheMaxSize(CacheCapacity)

NoKey == 0
\* evicted when the step just taken evicted nothing
NoEviction == [victim |-> NoKey, leastTouched |-> NoKey, oldestInserted |-> NoKey]

\* list.List operations on a sequence whose head is the front of the list
PushFront(l, k) == <<k>> \o l
Remove(l, k) == SelectSeq(l, LAMBDA x : x # k)
MoveToFront(l, k) == PushFront(Remove(l, k), k)
Back(l) == IF Len(l) = 0 THEN NoKey ELSE l[Len(l)]

\* time.Now().After(item.expiresAt), at the time now
ExpiredAt(item, now) == now > item.expiresAt
Expired(item) == ExpiredAt(item, cacheNow)

\* the map without one key: delete(c.items, key)
MapDelete(m, k) == [x \in DOMAIN m \ {k} |-> m[x]]
\* the map with one key set: c.items[key] = item
MapPut(m, k, item) == [x \in DOMAIN m \cup {k} |-> IF x = k THEN item ELSE m[x]]

NoItems == [x \in {} |-> 0]

\* a nil []byte
Nil == "nil"

\* what a Get of the Cache interface returns: ([]byte, error)
Returned(data, err) == [data |-> data, err |-> err]

\* MemoryCache.Get returns an error
MemGetReturnMissIsError(its, now, k) ==
    IF k \notin DOMAIN its THEN Returned(Nil, TRUE)
    ELSE IF ExpiredAt(its[k], now) THEN Returned(Nil, FALSE)
    ELSE Returned(its[k].value, FALSE)

\* MemoryCache.Get (lines 50-64): what it returns on the items its at the
\* time now
MemGetReturn(its, now, k) ==
    IF k \notin DOMAIN its THEN Returned(Nil, FALSE)
    ELSE IF ExpiredAt(its[k], now) THEN Returned(Nil, FALSE)
    ELSE Returned(its[k].value, FALSE)

\* the histories of evictions are kept
KeepEvictions == history = "evictions"
Track(e, idle) == IF KeepEvictions THEN e ELSE idle

\* the history of calls is kept
KeepCalls == history = "calls"
NoReply ==
    [op |-> "", key |-> NoKey, data |-> Nil, ttl |-> 0, err |-> FALSE,
     existed |-> FALSE]
Heard(r) == IF KeepCalls THEN r ELSE NoReply

\* reply after a Get of k
GetReply(k) ==
    LET r == MemGetReturn(items, cacheNow, k)
    IN  Heard([op |-> "Get", key |-> k, data |-> r.data, ttl |-> 0,
               err |-> r.err, existed |-> k \in DOMAIN items])

\* reply after a Set of k, which returns nil (line 94)
SetReply(k, v, ttl) ==
    Heard([op |-> "Set", key |-> k, data |-> v, ttl |-> ttl, err |-> FALSE,
           existed |-> k \in DOMAIN items])

InitCacheKeeping(h) ==
    /\ cacheNow = 0
    /\ items = NoItems
    /\ lru = <<>>
    /\ done = FALSE
    /\ touchOrder = <<>>
    /\ insertOrder = <<>>
    /\ evicted = NoEviction
    /\ inserted = [unbroken |-> TRUE, keys |-> {}]
    /\ history = h
    /\ reply = NoReply

InitCache == InitCacheKeeping("evictions")

\* a run of Sets of distinct new keys ends with any other mutation
BrokenRun == Track([unbroken |-> FALSE, keys |-> {}],
                   [unbroken |-> TRUE, keys |-> {}])

\* MemoryCache.Get (lines 46-65)
MemGetMiss(k) ==
    /\ k \notin DOMAIN items
    /\ reply' = GetReply(k)
    /\ UNCHANGED <<cacheNow, items, lru, done, touchOrder, insertOrder, evicted,
                   inserted, history, notCacheVars>>

\* Get that answers for an expired entry and leaves it to the sweep
MemGetExpiredLeaves(k) ==
    /\ k \in DOMAIN items
    /\ Expired(items[k])
    /\ inserted' = BrokenRun
    /\ evicted' = NoEviction
    /\ reply' = GetReply(k)
    /\ UNCHANGED <<cacheNow, items, lru, done, touchOrder, insertOrder, history,
                   notCacheVars>>

\* MemoryCache.Get on an entry that has expired (lines 56-59)
MemGetExpired(k) ==
    /\ k \in DOMAIN items
    /\ Expired(items[k])
    \* removeItem (lines 139-142)
    /\ lru' = Remove(lru, k)
    /\ items' = MapDelete(items, k)
    /\ touchOrder' = Track(Remove(touchOrder, k), <<>>)
    /\ insertOrder' = Track(Remove(insertOrder, k), <<>>)
    /\ inserted' = BrokenRun
    /\ evicted' = NoEviction
    /\ reply' = GetReply(k)
    /\ UNCHANGED <<cacheNow, done, history, notCacheVars>>

\* Get that returns the value and leaves the list as it is
MemGetHitNoMove(k) ==
    /\ k \in DOMAIN items
    /\ ~Expired(items[k])
    /\ touchOrder' = Track(MoveToFront(touchOrder, k), <<>>)
    /\ inserted' = BrokenRun
    /\ evicted' = NoEviction
    /\ reply' = GetReply(k)
    /\ UNCHANGED <<cacheNow, items, lru, done, insertOrder, history,
                   notCacheVars>>

MemGetHit(k) ==
    /\ k \in DOMAIN items
    /\ ~Expired(items[k])
    /\ lru' = MoveToFront(lru, k)
    /\ touchOrder' = Track(MoveToFront(touchOrder, k), <<>>)
    /\ inserted' = BrokenRun
    /\ evicted' = NoEviction
    /\ reply' = GetReply(k)
    /\ UNCHANGED <<cacheNow, items, done, insertOrder, history, notCacheVars>>

MemGet(k) == MemGetMiss(k) \/ MemGetExpired(k) \/ MemGetHit(k)

\* evictOldest (lines 145-151) with removeItem: the list and the map after
\* the element at the back of the list has been removed
EvictOldestLru(l) == IF Back(l) = NoKey THEN l ELSE Remove(l, Back(l))
EvictOldestItems(l, m) == IF Back(l) = NoKey THEN m ELSE MapDelete(m, Back(l))

\* Set on a key that exists that makes room as for a new key
MemSetExistingMakesRoom(k, v, ttl) ==
    /\ k \in DOMAIN items
    /\ LET full == Len(lru) >= maxSize
           l1 == IF full THEN EvictOldestLru(lru) ELSE lru
           m1 == IF full THEN EvictOldestItems(lru, items) ELSE items
       IN  /\ lru' = MoveToFront(l1, k)
           /\ items' = MapPut(m1, k, [value |-> v, expiresAt |-> cacheNow + ttl])
    /\ touchOrder' = Track(MoveToFront(touchOrder, k), <<>>)
    /\ inserted' = BrokenRun
    /\ evicted' = NoEviction
    /\ reply' = SetReply(k, v, ttl)
    /\ UNCHANGED <<cacheNow, done, insertOrder, history, notCacheVars>>

\* MemoryCache.Set on a key that exists (lines 73-78)
MemSetExisting(k, v, ttl) ==
    /\ k \in DOMAIN items
    /\ items' = [items EXCEPT ![k] = [value |-> v, expiresAt |-> cacheNow + ttl]]
    /\ lru' = MoveToFront(lru, k)
    /\ touchOrder' = Track(MoveToFront(touchOrder, k), <<>>)
    /\ inserted' = BrokenRun
    /\ evicted' = NoEviction
    /\ reply' = SetReply(k, v, ttl)
    /\ UNCHANGED <<cacheNow, done, insertOrder, history, notCacheVars>>

\* the capacity check of Set with the capacity off by one
AtCapacityOffByOne == Len(lru) > maxSize

\* the capacity check of Set (line 81)
AtCapacity == Len(lru) >= maxSize

\* the key at the far end of a history
Oldest(h) == IF Len(h) = 0 THEN NoKey ELSE h[Len(h)]

\* MemoryCache.Set on a new key (lines 80-94)
MemSetNew(k, v, ttl) ==
    /\ k \notin DOMAIN items
    /\ LET full == AtCapacity
           l1 == IF full THEN EvictOldestLru(lru) ELSE lru
           m1 == IF full THEN EvictOldestItems(lru, items) ELSE items
           gone == DOMAIN items \ DOMAIN m1
           t1 == SelectSeq(touchOrder, LAMBDA x : x \notin gone)
           i1 == SelectSeq(insertOrder, LAMBDA x : x \notin gone)
       IN  /\ lru' = PushFront(l1, k)
           /\ items' = MapPut(m1, k, [value |-> v, expiresAt |-> cacheNow + ttl])
           /\ touchOrder' = Track(PushFront(t1, k), <<>>)
           /\ insertOrder' = Track(PushFront(i1, k), <<>>)
           /\ evicted' = IF full /\ KeepEvictions
                           THEN [victim |-> IF gone = {} THEN NoKey
                                            ELSE CHOOSE x \in gone : TRUE,
                                 leastTouched |-> Oldest(touchOrder),
                                 oldestInserted |-> Oldest(insertOrder)]
                           ELSE NoEviction
    /\ inserted' = IF KeepEvictions /\ inserted.unbroken /\ k \notin inserted.keys
                     THEN [unbroken |-> TRUE, keys |-> inserted.keys \cup {k}]
                     ELSE BrokenRun
    /\ reply' = SetReply(k, v, ttl)
    /\ UNCHANGED <<cacheNow, done, history, notCacheVars>>

MemSet(k, v, ttl) == MemSetExisting(k, v, ttl) \/ MemSetNew(k, v, ttl)

\* MemoryCache.Delete (lines 98-107)
MemDelete(k) ==
    /\ IF k \in DOMAIN items
         THEN /\ lru' = Remove(lru, k)
              /\ items' = MapDelete(items, k)
              /\ touchOrder' = Track(Remove(touchOrder, k), <<>>)
              /\ insertOrder' = Track(Remove(insertOrder, k), <<>>)
         ELSE UNCHANGED <<lru, items, touchOrder, insertOrder>>
    /\ inserted' = BrokenRun
    /\ evicted' = NoEviction
    /\ reply' = NoReply
    /\ UNCHANGED <<cacheNow, done, history, notCacheVars>>

\* MemoryCache.Exists (lines 110-125): the value it returns
ExistsResult(k) == k \in DOMAIN items /\ ~Expired(items[k])

MemExists(k) ==
    /\ ExistsResult(k) \in BOOLEAN
    /\ reply' = NoReply
    /\ UNCHANGED <<cacheNow, items, lru, done, touchOrder, insertOrder, evicted,
                   inserted, history, notCacheVars>>

\* MemoryCache.Clear (lines 128-136)
MemClear ==
    /\ items' = NoItems
    /\ lru' = <<>>
    /\ touchOrder' = <<>>
    /\ insertOrder' = <<>>
    /\ inserted' = [unbroken |-> TRUE, keys |-> {}]
    /\ evicted' = NoEviction
    /\ reply' = NoReply
    /\ UNCHANGED <<cacheNow, done, history, notCacheVars>>

\* a pass of cleanupExpired that removes every entry
SweepVictimsAll == DOMAIN items

\* the keys one pass of cleanupExpired removes (lines 164-170)
SweepVictims == {k \in DOMAIN items : Expired(items[k])}

\* reply after a pass of cleanupExpired: whether it removed an entry
SweepReply ==
    Heard([op |-> "Sweep", key |-> NoKey, data |-> Nil, ttl |-> 0,
           err |-> FALSE, existed |-> SweepVictims # {}])

\* cleanupExpired, one firing of its ticker (lines 162-171); the goroutine
\* has returned once done is closed
MemSweep ==
    /\ ~done
    /\ lru' = SelectSeq(lru, LAMBDA x : x \notin SweepVictims)
    /\ items' = [x \in DOMAIN items \ SweepVictims |-> items[x]]
    /\ touchOrder' = SelectSeq(touchOrder, LAMBDA x : x \notin SweepVictims)
    /\ insertOrder' = SelectSeq(insertOrder, LAMBDA x : x \notin SweepVictims)
    /\ inserted' = BrokenRun
    /\ evicted' = NoEviction
    /\ reply' = SweepReply
    /\ UNCHANGED <<cacheNow, done, history, notCacheVars>>

\* MemoryCache.Close (lines 177-180)
MemClose ==
    /\ ~done
    /\ done' = TRUE
    /\ evicted' = NoEviction
    /\ reply' = NoReply
    /\ UNCHANGED <<cacheNow, items, lru, touchOrder, insertOrder, inserted,
                   history, notCacheVars>>

\* one unit of time passes
CacheTick ==
    /\ cacheNow < CacheMaxTime
    /\ cacheNow' = cacheNow + 1
    /\ evicted' = NoEviction
    /\ reply' = NoReply
    /\ UNCHANGED <<items, lru, done, touchOrder, insertOrder, inserted,
                   history, notCacheVars>>

NextCache ==
    \/ \E k \in CacheKeys : MemGet(k)
    \/ \E k \in CacheKeys, v \in CacheValues, ttl \in 1..MaxTTL : MemSet(k, v, ttl)
    \/ \E k \in CacheKeys : MemDelete(k)
    \/ \E k \in CacheKeys : MemExists(k)
    \/ MemClear
    \/ MemSweep
    \/ MemClose
    \/ CacheTick

(***************************************************************************)
(* Claims about the MemoryCache                                            *)
(***************************************************************************)
Min(a, b) == IF a <= b THEN a ELSE b

\* C8: the LRU cache never stores more than maxSize entries, whatever the
\* interleaving of Set, Get, Delete, Exists, Clear and sweeps, and Sets of
\* n distinct new keys into an empty cache leave min(n, maxSize) keys, so
\* maxSize + 1 of them leave exactly maxSize.
C8_LruBound ==
    /\ Cardinality(DOMAIN items) <= maxSize
    /\ Len(lru) <= maxSize
    /\ inserted.unbroken =>
          Cardinality(DOMAIN items) = Min(Cardinality(inserted.keys), maxSize)

\* C8 witness: maxSize + 1 distinct keys have been Set into the empty cache
\* and exactly maxSize are stored
C8_Witness ==
    /\ inserted.unbroken
    /\ Cardinality(inserted.keys) = maxSize + 1
    /\ Cardinality(DOMAIN items) = maxSize

\* C9: the entry a Set of a new key evicts from the full cache is the one
\* whose last touch (a Get that hit, or a Set) is the oldest of all stored
\* entries.
C9_LruVictim ==
    /\ evicted.victim = evicted.leastTouched
    /\ touchOrder = lru

\* C9 witness: Set(1), Set(2), a touch of 1, Set(3) with capacity 2: key 2
\* was evicted although key 1 was inserted before it, and 1 and 3 remain
C9_Witness ==
    /\ evicted.victim = 2
    /\ evicted.oldestInserted = 1
    /\ DOMAIN items = {1, 3}
    /\ lru = <<3, 1>>

(***************************************************************************)
(* footballdata cache manager: GetCacheTTL, CacheManager and its table     *)
(* cache_metadata                                                          *)
(***************************************************************************)
\* 30 * 24 * time.Hour, in days
DefaultTtlDays == 30

\* what os.Getenv("CACHE_TTL_DAYS") can hold: nothing, text that strconv.Atoi
\* rejects, or a number of days
EnvValues ==
    {[set |-> FALSE, numeric |-> FALSE, days |-> 0],
     [set |-> TRUE, numeric |-> FALSE, days |-> 0]}
    \cup {[set |-> TRUE, numeric |-> TRUE, days |-> d] : d \in (-1)..MaxTtlDays}

\* the largest number of days whose nanoseconds fit the int64 of a
\* time.Duration: (2^63 - 1) \div (24 * 3600 * 10^9)
MaxDurationDays == 106751
\* 2^64 nanoseconds in days, rounded up (they are 213503.98 days)
WrapDays == 213504

\* time.Duration(days) * 24 * time.Hour (line 21) in days, rounded down, for
\* 0 < days < WrapDays: the product is an int64 of nanoseconds and wraps
\* around (106752 days become -106751.98 days)
DurationOfDays(days) ==
    IF days <= MaxDurationDays THEN days ELSE days - WrapDays

\* numbers of days that strconv.Atoi accepts and that are at the edge of
\* what a time.Duration holds
LargeEnvValues ==
    {[set |-> TRUE, numeric |-> TRUE, days |-> d] :
        d \in {MaxDurationDays, MaxDurationDays + 1}}

\* GetCacheTTL: the TTL in days
GetCacheTTL(env) ==
    IF env.set /\ env.numeric /\ env.days > 0
      THEN DurationOfDays(env.days)
      ELSE DefaultTtlDays

\* the payloads upstream answers with
KnownPayloads == <<"p1", "p2", "p3">>
Payloads == {KnownPayloads[i] : i \in 1..NumPayloads}
NoPayload == "none"

\* ComputeDataHash: the SHA256 of the JSON form of the payload in hex, which
\* tells the payloads apart and is never ""
ComputeDataHash(p) ==
    CASE p = "p1" -> "5e88"
      [] p = "p2" -> "b3a1"
      [] OTHER -> "c0f7"

\* the rows of cache_metadata for one entity
RowsOf(tbl, t, k) ==
    {r \in BagToSet(tbl) : r.entityType = t /\ r.entityKey = k}

RECURSIVE Copies(_, _)
\* how many rows of the table are in the set S of distinct rows
Copies(tbl, S) ==
    IF S = {} THEN 0
    ELSE LET r == CHOOSE x \in S : TRUE
         IN  CopiesIn(r, tbl) + Copies(tbl, S \ {r})

\* the table without the rows of one entity
WithoutRowsOf(tbl, t, k) ==
    LET keep == BagToSet(tbl) \ RowsOf(tbl, t, k)
    IN  [r \in keep |-> tbl[r]]

\* INSERT without ON CONFLICT into a table without the UNIQUE constraint
InsertRow(tbl, row) == tbl (+) SetToBag({row})

\* INSERT ... ON CONFLICT (entity_type, entity_key) DO NOTHING
UpsertKeepsFirst(tbl, row) ==
    IF RowsOf(tbl, row.entityType, row.entityKey) = {}
      THEN tbl (+) SetToBag({row})
      ELSE tbl

\* INSERT ... ON CONFLICT (entity_type, entity_key) DO UPDATE SET cached_at,
\* expires_at, data_hash: a row of the same entity is updated in place,
\* otherwise the row is inserted
Upsert(tbl, row) ==
    LET hit == RowsOf(tbl, row.entityType, row.entityKey)
    IN  IF hit = {}
          THEN tbl (+) SetToBag({row})
          ELSE WithoutRowsOf(tbl, row.entityType, row.entityKey)
                   (+) [r \in {row} |-> Copies(tbl, hit)]

\* SetMetadata with a TTL of its own for the matches
SetMetadataPerType(tbl, t, k, dataHash) ==
    Upsert(tbl, [entityType |-> t, entityKey |-> k, cachedAt |-> schedNow,
                 expiresAt |-> schedNow + (IF t = "matches" THEN 0 ELSE CacheTTL),
                 dataHash |-> dataHash])

\* CacheManager.SetMetadata: the table after the statement has run
SetMetadata(tbl, t, k, dataHash) ==
    Upsert(tbl, [entityType |-> t, entityKey |-> k, cachedAt |-> schedNow,
                 expiresAt |-> schedNow + CacheTTL, dataHash |-> dataHash])

\* CacheManager.GetMetadata: what the call can return, <<>> for a nil result;
\* the query can fail whatever the table holds
GetMetadata(tbl, t, k) ==
    {[md |-> <<>>, err |-> TRUE]}
    \cup (IF RowsOf(tbl, t, k) = {}
            THEN {[md |-> <<>>, err |-> FALSE]}
            ELSE {[md |-> <<r>>, err |-> FALSE] : r \in RowsOf(tbl, t, k)})

\* NeedsRefresh that compares with CachedAt
NeedsRefreshCachedAt(md, err) ==
    IF err \/ md = <<>> THEN TRUE ELSE schedNow > md[1].cachedAt

\* NeedsRefresh that compares at-or-after
NeedsRefreshAtOrAfter(md, err) ==
    IF err \/ md = <<>> THEN TRUE ELSE schedNow >= md[1].expiresAt

\* NeedsRefresh that trusts the data when the lookup failed
NeedsRefreshFailClosed(md, err) ==
    IF err THEN FALSE
    ELSE IF md = <<>> THEN TRUE ELSE schedNow > md[1].expiresAt

\* CacheManager.NeedsRefresh on the result of GetMetadata
NeedsRefresh(md, err) ==
    IF err \/ md = <<>> THEN TRUE ELSE schedNow > md[1].expiresAt

\* a DELETE with the comparison of entity_type negated
DeleteOtherTypes(tbl, t, k) ==
    LET keep == {r \in BagToSet(tbl) : r.entityType = t \/ r.entityKey # k}
    IN  [r \in keep |-> tbl[r]]

\* a DELETE that removes only the rows that have expired
DeleteExpiredOnly(tbl, t, k) ==
    LET keep == {r \in BagToSet(tbl) :
                    ~(r.entityType = t /\ r.entityKey = k /\ schedNow > r.expiresAt)}
    IN  [r \in keep |-> tbl[r]]

\* CacheManager.InvalidateEntity: the DELETE statement
DeleteMetadata(tbl, t, k) == WithoutRowsOf(tbl, t, k)

(***************************************************************************)
(* cache.NewCache, the Cache backends behind the interface, and            *)
(* CacheManager.Get, Set and Delete                                        *)
(***************************************************************************)
\* the capacity NewCache gives the cache it falls back to
FactoryDefaultSize == 1000

\* a nil Cache
NoCache == [kind |-> "nil", maxSize |-> 0]
\* what NewMemoryCache(size) returns
MemoryCacheOf(size) == [kind |-> "memory", maxSize |-> NewMemoryCacheMaxSize(size)]
\* what NewRedisCache returns when the ping is answered
RedisCacheOf == [kind |-> "redis", maxSize |-> 0]

\* what a constructor returns: (Cache, error)
Built(cache, err) == [cache |-> cache, err |-> err]

\* NewRedisCache: the ping is answered or not
NewRedisCache(redisUp) ==
    IF redisUp THEN Built(RedisCacheOf, FALSE) ELSE Built(NoCache, TRUE)

\* the CacheConfig values given to NewCache, with whether the Redis at
\* RedisAddr answers
Configs ==
    [type : {"redis", "memory", "", "memcached"},
     maxSize : {0, CacheCapacity},
     redisUp : BOOLEAN]

\* NewCache that rejects the types it does not know
NewCacheStrict(config) ==
    CASE config.type = "redis" -> NewRedisCache(config.redisUp)
      [] config.type = "memory" -> Built(MemoryCacheOf(config.maxSize), FALSE)
      [] OTHER -> Built(NoCache, TRUE)

\* NewCache
NewCache(config) ==
    CASE config.type = "redis" -> NewRedisCache(config.redisUp)
      [] config.type = "memory" -> Built(MemoryCacheOf(config.maxSize), FALSE)
      [] OTHER -> Built(MemoryCacheOf(FactoryDefaultSize), FALSE)

\* the config of server.go
ServerCacheConfig == [type |-> "memory", maxSize |-> DefaultMaxSize, redisUp |-> FALSE]

\* the key InvalidateEntity deletes from the backend
RedisKey(t, k) == "football:" \o t \o ":" \o k

\* the keys the callers of CacheManager.Get, Set and Delete use: the key of
\* CachedClient for a competition and the key of InvalidateEntity
CoordKeys == {"competition:PL", RedisKey("competition", "PL")}

\* RedisCache.Get: redis.Nil becomes (nil, nil), any other error is returned;
\* the server holds no key whose TTL has run out
RedisGetReturn(st, now, k, fails) ==
    IF fails THEN Returned(Nil, TRUE)
    ELSE IF k \notin DOMAIN st THEN Returned(Nil, FALSE)
    ELSE IF now >= st[k].expiresAt THEN Returned(Nil, FALSE)
    ELSE Returned(st[k].value, FALSE)

\* Cache.Get on the backend in hand
BackendGet(cache, st, now, k, fails) ==
    IF cache.kind = "memory" THEN MemGetReturn(st, now, k)
    ELSE RedisGetReturn(st, now, k, fails)

\* the entries of the backend after Get: MemoryCache.Get removes the entry it
\* finds expired
BackendAfterGet(cache, st, now, k) ==
    IF cache.kind = "memory" /\ k \in DOMAIN st /\ ExpiredAt(st[k], now)
      THEN MapDelete(st, k)
      ELSE st

\* the entries of the backend after Set; a RedisCache.Set that fails stores
\* nothing
BackendAfterSet(st, now, k, v, ttl, fails) ==
    IF fails THEN st ELSE MapPut(st, k, [value |-> v, expiresAt |-> now + ttl])

\* the entries of the backend after Delete
BackendAfterDelete(st, k, fails) == IF fails THEN st ELSE MapDelete(st, k)

\* the failures a call on the backend can meet: MemoryCache returns no error
Failures(cache) == IF cache.kind = "redis" THEN BOOLEAN ELSE {FALSE}

\* CacheManager.Get that returns the error of the backend
ManagerGetReturnPropagates(b) ==
    IF b.err THEN Returned(Nil, TRUE)
    ELSE IF b.data # Nil THEN Returned(b.data, FALSE) ELSE Returned(Nil, FALSE)

\* CacheManager.Get, lines 118-128, on the answer b of the backend
ManagerGetReturn(b) ==
    IF ~b.err /\ b.data # Nil THEN Returned(b.data, FALSE) ELSE Returned(Nil, FALSE)

\* CacheManager.Delete that wants a backend
ManagerDeleteReturnWantsBackend(configured, backendErr) ==
    IF configured THEN backendErr ELSE TRUE

\* CacheManager.Delete, lines 146-149: the error it returns
ManagerDeleteReturn(configured, backendErr) ==
    IF configured THEN backendErr ELSE FALSE

\* no answer: the backend was not called
NoAnswer == Returned(Nil, FALSE)

NoMgrReply ==
    [op |-> "", key |-> "", asked |-> FALSE, backend |-> NoAnswer,
     data |-> Nil, err |-> FALSE]

MgrReply(op, k, asked, b, r) ==
    [op |-> op, key |-> k, asked |-> asked, backend |-> b, data |-> r.data,
     err |-> r.err]

InitCoord ==
    /\ newCache \in {[config |-> c, result |-> NewCache(c)] : c \in Configs}
    /\ redis \in {NoCache, newCache.result.cache}
    /\ store = NoItems
    /\ mgrReply = NoMgrReply

\* the CacheManager of the server: built on the cache of ServerCacheConfig
IdleCoord ==
    /\ newCache = [config |-> ServerCacheConfig, result |-> NewCache(ServerCacheConfig)]
    /\ redis = newCache.result.cache
    /\ store = NoItems
    /\ mgrReply = NoMgrReply

\* CacheManager.Get (lines 116-129)
CoordGet(k) ==
    /\ IF redis = NoCache
         THEN /\ mgrReply' = MgrReply("Get", k, FALSE, NoAnswer, Returned(Nil, FALSE))
              /\ UNCHANGED store
         ELSE \E fails \in Failures(redis) :
                LET b == BackendGet(redis, store, cacheNow, k, fails)
                IN  /\ mgrReply' = MgrReply("Get", k, TRUE, b, ManagerGetReturn(b))
                    /\ store' = BackendAfterGet(redis, store, cacheNow, k)
    /\ UNCHANGED <<newCache, redis, notMgrVars>>

\* CacheManager.Set (lines 132-142): the error of the backend is logged
CoordSet(k, v, ttl) ==
    /\ IF redis = NoCache
         THEN /\ mgrReply' = MgrReply("Set", k, FALSE, NoAnswer, Returned(Nil, FALSE))
              /\ UNCHANGED store
         ELSE \E fails \in Failures(redis) :
                /\ mgrReply' = MgrReply("Set", k, TRUE, Returned(Nil, fails),
                                        Returned(Nil, FALSE))
                /\ store' = BackendAfterSet(store, cacheNow, k, v, ttl, fails)
    /\ UNCHANGED <<newCache, redis, notMgrVars>>

\* CacheManager.Delete (lines 145-150)
CoordDelete(k) ==
    /\ IF redis = NoCache
         THEN /\ mgrReply' = MgrReply("Delete", k, FALSE, NoAnswer,
                                      Returned(Nil, ManagerDeleteReturn(FALSE, FALSE)))
              /\ UNCHANGED store
         ELSE \E fails \in Failures(redis) :
                /\ mgrReply' = MgrReply("Delete", k, TRUE, Returned(Nil, fails),
                                        Returned(Nil, ManagerDeleteReturn(TRUE, fails)))
                /\ store' = BackendAfterDelete(store, k, fails)
    /\ UNCHANGED <<newCache, redis, notMgrVars>>

\* one unit of time passes for the backend
CoordTick ==
    /\ cacheNow < CacheMaxTime
    /\ cacheNow' = cacheNow + 1
    /\ mgrReply' = NoMgrReply
    /\ UNCHANGED <<newCache, redis, store, clientVars, schedVars, lifeVars,
                   noteVars, wsVars, items,
                   lru, done, touchOrder, insertOrder, evicted, inserted, history,
                   reply>>

NextCoord ==
    \/ \E k \in CoordKeys : CoordGet(k)
    \/ \E k \in CoordKeys, v \in CacheValues, ttl \in 1..MaxTTL : CoordSet(k, v, ttl)
    \/ \E k \in CoordKeys : CoordDelete(k)
    \/ CoordTick

(***************************************************************************)
(* footballdata scheduler: Scheduler.Start and runSync                     *)
(***************************************************************************)
\* the competition codes the Scheduler is constructed with, and the
\* competitions upstream lists: the first of the codes of server.go
CompetitionList == <<"PL">>

\* the sub-resources runSync goes through for each competition, in its order
EntityTypes == <<"competition", "matches", "standings">>

AllEntities ==
    {<<EntityTypes[i], CompetitionList[j]>> :
        i \in 1..Len(EntityTypes), j \in 1..Len(CompetitionList)}

\* the configs of a CacheManager in use: a Redis that answers the ping or
\* does not, and the config of the server
FreshConfigs == {c \in Configs : c.type = "redis" /\ c.maxSize = 0}
                    \cup {ServerCacheConfig}

\* the key of the backend that InvalidateEntity deletes for a competition
FreshKeys == {RedisKey("competition", CompetitionList[1])}

\* two of the codes of server.go in their order, and the competitions
\* upstream lists, which are not the configured ones
OrderList == <<"PL", "PD">>
UpstreamCompetitions == <<"PD">>

\* the entities the histories of a tick are kept for
LoggedEntities ==
    {<<EntityTypes[i], OrderList[j]>> :
        i \in 1..Len(EntityTypes), j \in 1..Len(OrderList)}

NoDecision ==
    [made |-> FALSE, entityType |-> "", entityKey |-> "", at |-> 0,
     md |-> <<>>, err |-> FALSE, managed |-> FALSE, result |-> FALSE]

NewTickLog ==
    /\ checked' = [e \in LoggedEntities |-> "pending"]
    /\ failure' = [e \in LoggedEntities |-> "none"]
    /\ metaWrites' = [e \in LoggedEntities |-> 0]

\* the entity whose invalidations are followed
Tracked == <<"competition", CompetitionList[1]>>

\* the history of invalidations is kept
KeepInvalidations == history = "invalidations"

\* pending: InvalidateEntity has returned for the entity and no data fetched
\* after that has been persisted; unwritten: no SetMetadata has written its
\* record since; refetched: its last fetch came after the invalidation
NoInvalidation == [pending |-> FALSE, unwritten |-> FALSE, refetched |-> FALSE]
Noted(n) == IF KeepInvalidations THEN n ELSE NoInvalidation

\* the Scheduler and the package variable CacheTTL (line 29) after start-up
\* with CACHE_TTL_DAYS one of envs
InitSchedWith(envs) ==
    /\ schedNow = 0
    /\ CacheTTL \in {GetCacheTTL(env) : env \in envs}
    /\ cacheMetadata = EmptyBag
    /\ hasCacheManager \in BOOLEAN
    /\ competitionCodes = CompetitionList
    /\ pc = "new"
    /\ competitions = <<>>
    /\ ci = 0
    /\ et = 0
    /\ payload = NoPayload
    /\ decision = NoDecision
    /\ checked = [e \in LoggedEntities |-> "pending"]
    /\ failure = [e \in LoggedEntities |-> "none"]
    /\ metaWrites = [e \in LoggedEntities |-> 0]
    /\ invalidation = NoInvalidation

InitSched == InitSchedWith(EnvValues)

\* the Scheduler constructed with the codes of OrderList and no cache
\* manager, or with no codes and a cache manager, and the default TTL
InitSchedOrder ==
    /\ schedNow = 0
    /\ CacheTTL = DefaultTtlDays
    /\ cacheMetadata = EmptyBag
    /\ competitionCodes \in {<<>>, OrderList}
    /\ hasCacheManager = (competitionCodes = <<>>)
    /\ pc = "new"
    /\ competitions = <<>>
    /\ ci = 0
    /\ et = 0
    /\ payload = NoPayload
    /\ decision = NoDecision
    /\ checked = [e \in LoggedEntities |-> "pending"]
    /\ failure = [e \in LoggedEntities |-> "none"]
    /\ metaWrites = [e \in LoggedEntities |-> 0]
    /\ invalidation = NoInvalidation

curType == EntityTypes[et]
curCode == competitions[ci]
cur == <<curType, curCode>>

\* Scheduler.Start, lines 31-35: the initial sync begins
SchedulerStart ==
    /\ pc = "new"
    /\ pc' = "resolve"
    /\ NewTickLog
    /\ UNCHANGED <<schedNow, CacheTTL, cacheMetadata, hasCacheManager,
                   competitionCodes, competitions, ci, et, payload, decision,
                   notSchedVars>>

\* a ticker that starts the sync in a goroutine of its own
TickerFiresWhileRunning ==
    /\ pc \notin {"new", "exited"}
    /\ pc' = "resolve"
    /\ NewTickLog
    /\ UNCHANGED <<schedNow, CacheTTL, cacheMetadata, hasCacheManager,
                   competitionCodes, competitions, ci, et, payload, decision,
                   notSchedVars>>

\* Scheduler.Start, lines 42-44: the ticker fires and a sync begins
TickerFires ==
    /\ pc = "wait"
    /\ pc' = "resolve"
    /\ NewTickLog
    /\ UNCHANGED <<schedNow, CacheTTL, cacheMetadata, hasCacheManager,
                   competitionCodes, competitions, ci, et, payload, decision,
                   notSchedVars>>

\* runSync enters its loop over the competitions (line 74)
EnterLoop(comps) ==
    /\ competitions' = comps
    /\ IF Len(comps) = 0
         THEN pc' = "wait" /\ ci' = 0 /\ et' = 0
         ELSE pc' = "check" /\ ci' = 1 /\ et' = 1

\* getAllCompetitions, lines 121-128: the configured codes are used
ResolveConfigured ==
    /\ pc = "resolve"
    /\ Len(competitionCodes) > 0
    /\ EnterLoop(competitionCodes)
    /\ UNCHANGED <<schedNow, CacheTTL, cacheMetadata, hasCacheManager,
                   competitionCodes, payload, decision, checked, failure,
                   metaWrites, notSchedVars>>

\* getAllCompetitions, line 131: upstream lists the competitions
ResolveFetched ==
    /\ pc = "resolve"
    /\ Len(competitionCodes) = 0
    /\ EnterLoop(UpstreamCompetitions)
    /\ UNCHANGED <<schedNow, CacheTTL, cacheMetadata, hasCacheManager,
                   competitionCodes, payload, decision, checked, failure,
                   metaWrites, notSchedVars>>

\* a runSync that goes on with the competitions of the tick before when the
\* upstream call fails
ResolveFailedKeepsList ==
    /\ pc = "resolve"
    /\ Len(competitionCodes) = 0
    /\ EnterLoop(competitions)
    /\ UNCHANGED <<schedNow, CacheTTL, cacheMetadata, hasCacheManager,
                   competitionCodes, payload, decision, checked, failure,
                   metaWrites, notSchedVars>>

\* getAllCompetitions, line 131, and runSync, lines 66-69: the upstream call
\* fails and runSync returns
ResolveFailed ==
    /\ pc = "resolve"
    /\ Len(competitionCodes) = 0
    /\ EnterLoop(<<>>)
    /\ UNCHANGED <<schedNow, CacheTTL, cacheMetadata, hasCacheManager,
                   competitionCodes, payload, decision, checked, failure,
                   metaWrites, notSchedVars>>

\* a runSync that goes through the competitions once for each sub-resource
NextEntityByType ==
    /\ payload' = NoPayload
    /\ UNCHANGED competitions
    /\ IF ci < Len(competitions)
         THEN pc' = "check" /\ ci' = ci + 1 /\ et' = et
         ELSE IF et < Len(EntityTypes)
                THEN pc' = "check" /\ ci' = 1 /\ et' = et + 1
                ELSE pc' = "wait" /\ ci' = 0 /\ et' = 0

\* the position of runSync after the sub-resource in hand
NextEntity ==
    /\ payload' = NoPayload
    /\ UNCHANGED competitions
    /\ IF et < Len(EntityTypes)
         THEN pc' = "check" /\ ci' = ci /\ et' = et + 1
         ELSE IF ci < Len(competitions)
                THEN pc' = "check" /\ ci' = ci + 1 /\ et' = 1
                ELSE pc' = "wait" /\ ci' = 0 /\ et' = 0

\* runSync stays with the sub-resource in hand
SameEntity(nextPc) ==
    /\ pc' = nextPc
    /\ UNCHANGED <<competitions, ci, et>>

\* needsRefresh that trusts an entry of the backend
needsRefreshCacheFirst(md, err) ==
    IF ~hasCacheManager THEN TRUE
    ELSE IF RedisKey(curType, curCode) \in DOMAIN store THEN FALSE
    ELSE NeedsRefresh(md, err)

\* Scheduler.needsRefresh (lines 135-141) on what GetMetadata returned
needsRefresh(md, err) ==
    IF ~hasCacheManager THEN TRUE ELSE NeedsRefresh(md, err)

\* what GetMetadata returns to needsRefresh; it is not called without a
\* cache manager, and QueryRowContext fails once the context is cancelled
Lookups ==
    IF ~hasCacheManager THEN {[md |-> <<>>, err |-> FALSE]}
    ELSE IF ctxDone THEN {[md |-> <<>>, err |-> TRUE]}
    ELSE GetMetadata(cacheMetadata, curType, curCode)

Decide(l) ==
    [made |-> TRUE, entityType |-> curType, entityKey |-> curCode,
     at |-> schedNow, md |-> l.md, err |-> l.err, managed |-> hasCacheManager,
     result |-> needsRefresh(l.md, l.err)]

\* runSync, lines 76, 85, 100: needsRefresh is true, the sync starts
CheckStale ==
    /\ pc = "check"
    /\ \E l \in Lookups :
          /\ needsRefresh(l.md, l.err)
          /\ decision' = Decide(l)
    /\ checked' = [checked EXCEPT ![cur] = "stale"]
    /\ SameEntity("fetch")
    /\ UNCHANGED <<schedNow, CacheTTL, cacheMetadata, hasCacheManager,
                   competitionCodes, payload, failure, metaWrites,
                   notSchedVars>>

\* a runSync that paces after every entity, fresh or not
CheckFreshPaced ==
    /\ pc = "check"
    /\ \E l \in Lookups :
          /\ ~needsRefresh(l.md, l.err)
          /\ decision' = Decide(l)
    /\ checked' = [checked EXCEPT ![cur] = "fresh"]
    /\ SameEntity("sleep")
    /\ UNCHANGED <<schedNow, CacheTTL, cacheMetadata, hasCacheManager,
                   competitionCodes, payload, failure, metaWrites,
                   notSchedVars>>

\* runSync, lines 76, 85, 100: needsRefresh is false, the block is skipped
CheckFresh ==
    /\ pc = "check"
    /\ \E l \in Lookups :
          /\ ~needsRefresh(l.md, l.err)
          /\ decision' = Decide(l)
    /\ checked' = [checked EXCEPT ![cur] = "fresh"]
    /\ NextEntity
    /\ UNCHANGED <<schedNow, CacheTTL, cacheMetadata, hasCacheManager,
                   competitionCodes, failure, metaWrites, notSchedVars>>

\* runSync returns as soon as a sync fails
PcAfterFetchErrorAbort(type) == "wait"

\* where runSync goes when the fetch of a sub-resource fails: the error of
\* syncCompetition is logged (lines 78-81); after that of
\* SyncCompetitionMatches or syncStandings the metadata is set all the same
\* (lines 87-94, 102-109)
PcAfterFetchError(type) ==
    IF type = "competition" THEN "sleep"
    ELSE IF hasCacheManager THEN "meta2" ELSE "sleep"

\* where runSync goes when the fetch succeeded
PcAfterFetch(type) ==
    IF type = "standings"
      THEN (IF hasCacheManager THEN "meta" ELSE "sleep")
      ELSE "save"

\* syncCompetition line 146, SyncCompetitionMatches line 48, syncStandings
\* line 168: the upstream call returns a payload; the request carries the
\* context (client.go line 55) and fails once it is cancelled
FetchOk ==
    /\ pc = "fetch"
    /\ ~ctxDone
    /\ \E p \in Payloads : payload' = p
    /\ SameEntity(PcAfterFetch(curType))
    /\ decision' = NoDecision
    /\ invalidation' = Noted(IF cur = Tracked /\ invalidation.pending
                               THEN [invalidation EXCEPT !.refetched = TRUE]
                               ELSE invalidation)
    /\ UNCHANGED <<schedNow, CacheTTL, cacheMetadata, hasCacheManager,
                   competitionCodes, checked, failure, metaWrites,
                   notSyncVars>>

\* the upstream call fails
FetchFails ==
    /\ pc = "fetch"
    /\ failure' = [failure EXCEPT ![cur] = "fetch"]
    /\ SameEntity(PcAfterFetchError(curType))
    /\ decision' = NoDecision
    /\ UNCHANGED <<schedNow, CacheTTL, cacheMetadata, hasCacheManager,
                   competitionCodes, payload, checked, metaWrites,
                   notSchedVars>>

\* a sync that ends after the repository call without SetMetadata
PcAfterSaveForgets(type, ok) == "sleep"

\* where runSync goes after the repository call: syncCompetition returns the
\* error of SaveCompetition (lines 152-154), SyncCompetitionMatches logs the
\* errors of SaveTeam and SaveMatch and returns nil (service.go lines 53-73)
PcAfterSave(type, ok) ==
    IF type = "competition"
      THEN (IF ok /\ hasCacheManager THEN "meta" ELSE "sleep")
      ELSE (IF hasCacheManager THEN "meta2" ELSE "sleep")

\* the outcomes of a statement run with the context of the Scheduler:
\* ExecContext fails once the context is cancelled
DbOutcomes == IF ctxDone THEN {FALSE} ELSE BOOLEAN

\* SaveCompetition, or SaveTeam and SaveMatch for the matches fetched
Save ==
    /\ pc = "save"
    /\ \E ok \in DbOutcomes :
          /\ failure' = IF ok THEN failure
                        ELSE [failure EXCEPT ![cur] = "persist"]
          /\ SameEntity(PcAfterSave(curType, ok))
          /\ invalidation' =
                Noted(IF ok /\ cur = Tracked /\ invalidation.refetched
                        THEN [invalidation EXCEPT !.pending = FALSE,
                                                  !.refetched = FALSE]
                        ELSE invalidation)
    /\ decision' = NoDecision
    /\ UNCHANGED <<schedNow, CacheTTL, cacheMetadata, hasCacheManager,
                   competitionCodes, payload, checked, metaWrites,
                   notSyncVars>>

\* one call of SetMetadata by the Scheduler: the statement runs or the
\* database reports an error
WriteMetadata(dataHash) ==
    \E dbOk \in DbOutcomes :
        IF dbOk
          THEN /\ cacheMetadata' = SetMetadata(cacheMetadata, curType, curCode,
                                               dataHash)
               /\ metaWrites' = [metaWrites EXCEPT ![cur] = @ + 1]
               /\ invalidation' =
                     Noted(IF cur = Tracked
                             THEN [invalidation EXCEPT !.unwritten = FALSE]
                             ELSE invalidation)
               /\ UNCHANGED failure
          ELSE /\ failure' = IF failure[cur] = "none"
                               THEN [failure EXCEPT ![cur] = "metadata"]
                               ELSE failure
               /\ UNCHANGED <<cacheMetadata, metaWrites, invalidation>>

\* syncCompetition lines 157-160, syncStandings lines 176-179: SetMetadata
\* with the hash of the payload
SetMetadataOfPayload ==
    /\ pc = "meta"
    /\ WriteMetadata(ComputeDataHash(payload))
    /\ SameEntity(IF curType = "standings" THEN "meta2" ELSE "sleep")
    /\ decision' = NoDecision
    /\ UNCHANGED <<schedNow, CacheTTL, hasCacheManager, competitionCodes,
                   payload, checked, notSyncVars>>

\* runSync lines 92-94 and 107-109: SetMetadata with an empty hash, whatever
\* the sync returned
SetMetadataAfterSync ==
    /\ pc = "meta2"
    /\ WriteMetadata("")
    /\ SameEntity("sleep")
    /\ decision' = NoDecision
    /\ UNCHANGED <<schedNow, CacheTTL, hasCacheManager, competitionCodes,
                   payload, checked, notSyncVars>>

\* runSync lines 81, 96, 111: time.Sleep returns and the loop goes on
Sleep ==
    /\ pc = "sleep"
    /\ NextEntity
    /\ decision' = NoDecision
    /\ UNCHANGED <<schedNow, CacheTTL, cacheMetadata, hasCacheManager,
                   competitionCodes, checked, failure, metaWrites,
                   notSchedVars>>

\* CacheManager.InvalidateEntity called from outside the Scheduler, lines
\* 155-167 with the DELETE run by the database; when the statement fails
\* (lines 157-159) the call changes nothing
InvalidateEntity(t, k) ==
    /\ hasCacheManager
    /\ cacheMetadata' = DeleteMetadata(cacheMetadata, t, k)
    \* lines 162-165: the key is deleted from the backend, its error dropped
    /\ IF redis = NoCache
         THEN UNCHANGED store
         ELSE \E fails \in Failures(redis) :
                store' = BackendAfterDelete(store, RedisKey(t, k), fails)
    /\ invalidation' =
          Noted(IF <<t, k>> = Tracked
                  THEN [pending |-> TRUE, unwritten |-> TRUE, refetched |-> FALSE]
                  ELSE invalidation)
    /\ UNCHANGED <<schedNow, CacheTTL, hasCacheManager, competitionCodes, pc,
                   competitions, ci, et, payload, decision, checked, failure,
                   metaWrites, newCache, redis, mgrReply, clientVars, cacheVars,
                   lifeVars, wsVars>>

\* CacheManager.InvalidateEntity, lines 156-159: the DELETE fails and the call
\* returns its error before it comes to the backend
InvalidateEntityFails(t, k) ==
    /\ hasCacheManager
    /\ mgrReply' = MgrReply("InvalidateEntity", RedisKey(t, k), FALSE, NoAnswer,
                            Returned(Nil, TRUE))
    /\ UNCHANGED <<newCache, redis, store, notMgrVars>>

\* the key under which CachedClient keeps an entity (cached_client.go lines
\* 38, 96, 125)
CachedKey(t, k) == t \o ":" \o k

\* the entities read through CachedClient and invalidated from outside
ReadEntities ==
    {<<"competition", CompetitionList[1]>>, <<"standings", CompetitionList[1]>>}

\* the repository keeps no standings: they have no table (part_009 lines
\* 173-174)
DurableStandings == {}

\* CachedClient.GetCompetition and GetStandings (cached_client.go lines
\* 37-63, 124-152): a hit is returned as it is; on a miss the entity is
\* fetched and, when the fetch succeeds, set in the cache with the TTL of its
\* type, the error of Set dropped
CachedRead(t, k) ==
    /\ redis # NoCache
    /\ \E fails \in Failures(redis) :
          LET b == BackendGet(redis, store, cacheNow, CachedKey(t, k), fails)
              afterGet == BackendAfterGet(redis, store, cacheNow, CachedKey(t, k))
          IN  IF ~b.err /\ b.data # Nil
                THEN store' = afterGet
                ELSE \/ store' = afterGet
                     \/ \E p \in Payloads, ttl \in 1..MaxTTL,
                           setFails \in Failures(redis) :
                           store' = BackendAfterSet(afterGet, cacheNow,
                                                    CachedKey(t, k), p, ttl,
                                                    setFails)
    /\ UNCHANGED <<newCache, redis, mgrReply, notMgrVars>>

\* one day passes
SchedTick ==
    /\ schedNow < SchedMaxTime
    /\ schedNow' = schedNow + 1
    /\ UNCHANGED <<CacheTTL, cacheMetadata, hasCacheManager, competitionCodes,
                   pc, competitions, ci, et, payload, decision, checked,
                   failure, metaWrites, notSchedVars>>

\* Scheduler.Stop (lines 56-58)
Stop ==
    /\ ~stopRequested
    /\ stopRequested' = TRUE
    /\ UNCHANGED <<ctxDone, schedVars, clientVars, cacheVars, mgrVars, noteVars,
                   wsVars>>

\* Scheduler.Stop called again (line 57): the close of a closed channel
\* panics, and the panic, which nothing recovers, ends the process with the
\* goroutine of Start wherever it is
StopAgain ==
    /\ stopRequested
    /\ pc # "panicked"
    /\ pc' = "panicked"
    /\ UNCHANGED <<schedNow, CacheTTL, cacheMetadata, hasCacheManager,
                   competitionCodes, competitions, ci, et, payload, decision,
                   checked, failure, metaWrites, notSchedVars>>

\* the owner of the context given to Start cancels it
CancelContext ==
    /\ ~ctxDone
    /\ ctxDone' = TRUE
    /\ UNCHANGED <<stopRequested, schedVars, clientVars, cacheVars, mgrVars,
                   noteVars, wsVars>>

\* a select without the case of ctx.Done()
LoopExitsOnStopOnly ==
    /\ pc = "wait"
    /\ stopRequested
    /\ pc' = "exited"
    /\ UNCHANGED <<schedNow, CacheTTL, cacheMetadata, hasCacheManager,
                   competitionCodes, competitions, ci, et, payload, decision,
                   checked, failure, metaWrites, notSchedVars>>

\* Scheduler.Start, lines 45-50: the select finds stopChan closed or the
\* context done, and Start returns
LoopExits ==
    /\ pc = "wait"
    /\ stopRequested \/ ctxDone
    /\ pc' = "exited"
    /\ UNCHANGED <<schedNow, CacheTTL, cacheMetadata, hasCacheManager,
                   competitionCodes, competitions, ci, et, payload, decision,
                   checked, failure, metaWrites, notSchedVars>>

InitLife ==
    /\ stopRequested = FALSE
    /\ ctxDone = FALSE

NextLifecycle ==
    \/ SchedulerStart
    \/ TickerFires
    \/ ResolveConfigured
    \/ CheckStale
    \/ CheckFresh
    \/ FetchOk
    \/ FetchFails
    \/ Save
    \/ SetMetadataOfPayload
    \/ SetMetadataAfterSync
    \/ Sleep
    \/ Stop
    \/ CancelContext
    \/ LoopExits

Next ==
    \/ SchedulerStart
    \/ TickerFires
    \/ ResolveConfigured
    \/ CheckStale
    \/ CheckFresh
    \/ FetchOk
    \/ FetchFails
    \/ Save
    \/ SetMetadataOfPayload
    \/ SetMetadataAfterSync
    \/ Sleep
    \/ \E e \in AllEntities : InvalidateEntity(e[1], e[2])
    \/ SchedTick

(***************************************************************************)
(* Claims about the rate limiter                                           *)
(***************************************************************************)
\* the calls permitted in the window of rateLimitDuration that starts at t
InWindow(t) == {i \in 1..Len(permits) :
                    permits[i] >= t /\ permits[i] < t + rateLimitDuration}

\* C1: under any interleaving of concurrent callers of doRequest, no more
\* than requestsPerMinute calls are permitted within any rolling window of
\* rateLimitDuration.
C1_RateCeiling ==
    \A i \in 1..Len(permits) :
        Cardinality(InWindow(permits[i])) <= requestsPerMinute

\* C2: permit check, suspension and update of lastRequest are one critical
\* section: no two callers compute their wait from the same value of
\* lastRequest, and any two permits are at least RequiredGap apart.
C2_SingleCriticalSection ==
    /\ \A s \in BagToSet(sleepers) :
          /\ CopiesIn(s, sleepers) = 1
          /\ \A t \in BagToSet(sleepers) : t.seen = s.seen => t = s
    /\ \A i \in 1..Len(permits) : \A j \in 1..Len(permits) :
          i < j => permits[j] - permits[i] >= RequiredGap

(***************************************************************************)
(* Claims about the Scheduler and the CacheManager                         *)
(***************************************************************************)
\* the tick in hand has gone through all its competitions
TickDone == pc = "wait" /\ Len(competitions) > 0

\* the entities of the tick in hand
TickEntities ==
    {<<EntityTypes[i], competitions[j]>> :
        i \in 1..Len(EntityTypes), j \in 1..Len(competitions)}

\* the last needsRefresh call had a FreshnessRecord to decide on
RecordObtained ==
    decision.made /\ decision.managed /\ ~decision.err /\ decision.md # <<>>

\* C3: when fetching or persisting an entity fails during a tick, SetMetadata
\* does not write the FreshnessRecord of that entity in that tick.
C3_NoMetadataAfterFailure ==
    \A e \in AllEntities :
        failure[e] \in {"fetch", "persist"} => metaWrites[e] = 0

\* C4: a failure of one entity does not abort the tick: when the tick is
\* done every entity of it has been checked, and every stale entity whose own
\* fetch, persistence and metadata write did not fail has had its
\* FreshnessRecord written in that tick.
C4_PartialFailureIsolation ==
    TickDone =>
        \A e \in TickEntities :
            /\ checked[e] # "pending"
            /\ (hasCacheManager /\ checked[e] = "stale" /\ failure[e] = "none")
                  => metaWrites[e] >= 1

\* C4 witness: a finished tick in which the fetch of the matches failed while
\* the competition before it and the standings after it were synced and
\* their records written
C4_Witness ==
    /\ TickDone
    /\ hasCacheManager
    /\ failure[<<"matches", "PL">>] = "fetch"
    /\ failure[<<"competition", "PL">>] = "none"
    /\ failure[<<"standings", "PL">>] = "none"
    /\ metaWrites[<<"competition", "PL">>] >= 1
    /\ metaWrites[<<"standings", "PL">>] >= 1

\* C5 as stated: with a FreshnessRecord, NeedsRefresh is false while
\* now < expiresAt and true once now >= expiresAt.
C5_TtlAtOrAfter ==
    RecordObtained =>
        (decision.result <=> decision.at >= decision.md[1].expiresAt)

\* C5 as amended: with a FreshnessRecord obtained, NeedsRefresh is false while
\* now <= expiresAt and true once now > expiresAt.
C5_TtlCorrectness ==
    RecordObtained =>
        (decision.result <=> decision.at > decision.md[1].expiresAt)

\* C5 witness: a record past its expiry is reported stale
C5_Witness ==
    /\ RecordObtained
    /\ decision.at > decision.md[1].expiresAt
    /\ decision.result

\* C6: at the exact boundary now = expiresAt NeedsRefresh returns false.
C6_BoundaryIsFresh ==
    (RecordObtained /\ decision.at = decision.md[1].expiresAt)
        => ~decision.result

\* C6 witness: a decision taken exactly at expiresAt
C6_Witness ==
    /\ RecordObtained
    /\ decision.at = decision.md[1].expiresAt
    /\ ~decision.result

\* C7: the freshness check fails open: it returns true when no record
\* exists, when the lookup fails and when no cache manager is configured.
C7_FailsOpen ==
    (decision.made /\ (~decision.managed \/ decision.err \/ decision.md = <<>>))
        => decision.result

\* C7 witness: the lookup failed for an entity whose record is fresh, and
\* the entity is refreshed
C7_Witness ==
    /\ decision.made
    /\ decision.err
    /\ decision.result
    /\ decision.at = schedNow
    /\ \E r \in RowsOf(cacheMetadata, decision.entityType, decision.entityKey) :
          schedNow < r.expiresAt

\* C10: at most one FreshnessRecord exists per (entityType, entityKey),
\* whatever the interleaving of SetMetadata and InvalidateEntity.
C10_AtMostOneRecord ==
    \A e \in AllEntities :
        Copies(cacheMetadata, RowsOf(cacheMetadata, e[1], e[2])) <= 1

\* C10 witness: SetMetadata has written the same entity twice in one tick
\* and one row is there
C10_Witness ==
    \E e \in AllEntities :
        /\ metaWrites[e] = 2
        /\ Copies(cacheMetadata, RowsOf(cacheMetadata, e[1], e[2])) = 1

\* the hash the SetMetadata call of the step in hand is given
HashInHand == IF pc = "meta" THEN ComputeDataHash(payload) ELSE ""

\* the step in hand is a SetMetadata call of the Scheduler that wrote
WritesInHand ==
    /\ pc \in {"meta", "meta2"}
    /\ pc' # pc
    /\ metaWrites'[cur] = metaWrites[cur] + 1

\* C11: the upsert is last-write-wins: after every SetMetadata call that
\* wrote, also the second for the same entity, the entity has exactly one
\* FreshnessRecord, with the cachedAt, expiresAt and dataHash of that call,
\* and the records of the other entities are as they were.
C11_LastWriteWins ==
    [][WritesInHand =>
          /\ RowsOf(cacheMetadata', curType, curCode) =
                 {[entityType |-> curType, entityKey |-> curCode,
                   cachedAt |-> schedNow, expiresAt |-> schedNow + CacheTTL,
                   dataHash |-> HashInHand]}
          /\ Copies(cacheMetadata', RowsOf(cacheMetadata', curType, curCode)) = 1
          /\ WithoutRowsOf(cacheMetadata', curType, curCode) =
                 WithoutRowsOf(cacheMetadata, curType, curCode)]_vars

\* C11 witness: the standings were written twice in one tick, first with the
\* hash of the payload and then with the empty hash, a day after the
\* competition: one record of the standings is there, it is that of the
\* second call, and the record of the competition is as it was written
C11_Witness ==
    /\ metaWrites[<<"standings", "PL">>] = 2
    /\ schedNow > 0
    /\ RowsOf(cacheMetadata, "standings", "PL") =
           {[entityType |-> "standings", entityKey |-> "PL",
             cachedAt |-> schedNow, expiresAt |-> schedNow + CacheTTL,
             dataHash |-> ""]}
    /\ \E r \in RowsOf(cacheMetadata, "competition", "PL") :
           r.cachedAt < schedNow /\ r.dataHash # ""

TtlPolicy ==
    [t \in {"competition", "matches", "standings"} |->
        CASE t = "competition" -> 24 * 60
          [] t = "matches" -> 5
          [] OTHER -> 15]

MinutesPerDay == 24 * 60

\* C14 as stated: SetMetadata stores expiresAt = cachedAt + the TTL the policy
\* assigns to the entityType, so that the entity types expire after their own
\* durations.
C14_PolicyTtl ==
    \A r \in BagToSet(cacheMetadata) :
        (r.expiresAt - r.cachedAt) * MinutesPerDay = TtlPolicy[r.entityType]

\* C14 as amended: SetMetadata stores expiresAt = cachedAt + CacheTTL, the one
\* duration of the package whatever the entityType, and NeedsRefresh on the
\* record is true exactly once that duration has passed.
C14_GlobalTtl ==
    \A r \in BagToSet(cacheMetadata) :
        /\ r.expiresAt = r.cachedAt + CacheTTL
        /\ NeedsRefresh(<<r>>, FALSE) <=> schedNow > r.cachedAt + CacheTTL

\* C14 witness: records of two entity types written on different days live
\* equally long; the older has run out and the younger has not
C14_Witness ==
    \E r1 \in BagToSet(cacheMetadata), r2 \in BagToSet(cacheMetadata) :
        /\ r1.entityType # r2.entityType
        /\ r1.cachedAt < r2.cachedAt
        /\ r1.expiresAt - r1.cachedAt = r2.expiresAt - r2.cachedAt
        /\ NeedsRefresh(<<r1>>, FALSE)
        /\ ~NeedsRefresh(<<r2>>, FALSE)

\* C13: once Stop has been requested or the context has been cancelled, no
\* entity sync starts: runSync does not go from the freshness check of an
\* entity on to its fetch.
C13_NoSyncAfterStop ==
    [][(stopRequested \/ ctxDone) => ~(pc = "check" /\ pc' = "fetch")]_vars

C17_BackendErrorSwallowed ==
    (mgrReply.op = "Get" /\ mgrReply.backend.err) =>
        (mgrReply.data = Nil /\ ~mgrReply.err)

\* a Get that failed in the backend for a key the backend holds, unexpired
C17_Witness ==
    /\ mgrReply.op = "Get"
    /\ mgrReply.asked
    /\ mgrReply.backend.err
    /\ mgrReply.key \in DOMAIN store
    /\ ~ExpiredAt(store[mgrReply.key], cacheNow)

\* C18: for a Type that is neither "redis" nor "memory", NewCache returns a
\* MemoryCache of the default capacity and a nil error.
C18_FactoryFallsBack ==
    newCache.config.type \notin {"redis", "memory"} =>
        /\ ~newCache.result.err
        /\ newCache.result.cache.kind = "memory"
        /\ newCache.result.cache.maxSize = FactoryDefaultSize

\* the cache built for the Type "memcached", in use behind a CacheManager
C18_Witness ==
    /\ newCache.config.type = "memcached"
    /\ redis = newCache.result.cache
    /\ redis.kind = "memory"
    /\ mgrReply.op = "Set"
    /\ mgrReply.key \in DOMAIN store

\* C19: Get on an entry of the MemoryCache that has expired and is still
\* stored returns a nil value and no error, removes that entry from the map
\* and from the list in the same call, and leaves every other entry and the
\* order of the list as they were.
C19_ExpiredGetRemoves ==
    [][\A k \in CacheKeys :
         (MemGet(k) /\ k \in DOMAIN items /\ Expired(items[k])) =>
           /\ reply'.op = "Get" /\ reply'.key = k
           /\ reply'.data = Nil
           /\ ~reply'.err
           /\ DOMAIN items' = DOMAIN items \ {k}
           /\ \A j \in DOMAIN items' : items'[j] = items[j]
           /\ lru' = SelectSeq(lru, LAMBDA x : x # k)
           /\ \A i \in 1..Len(lru') : lru'[i] # k]_vars

\* a Get has just found its entry expired and removed it, and another expired
\* entry that the sweep has not removed is still stored
C19_Witness ==
    /\ reply.op = "Get"
    /\ reply.existed
    /\ reply.data = Nil
    /\ reply.key \notin DOMAIN items
    /\ \E j \in DOMAIN items : Expired(items[j])

\* C20: Set on a key the MemoryCache already holds replaces its value and its
\* expiry, moves it to the front of the list, removes no entry and leaves
\* the number of entries as it was, also when the cache is at capacity.
C20_SetExistingReplaces ==
    [][\A k \in CacheKeys, v \in CacheValues, ttl \in 1..MaxTTL :
         (MemSet(k, v, ttl) /\ k \in DOMAIN items) =>
           /\ DOMAIN items' = DOMAIN items
           /\ items'[k] = [value |-> v, expiresAt |-> cacheNow + ttl]
           /\ \A j \in DOMAIN items \ {k} : items'[j] = items[j]
           /\ Len(lru') = Len(lru)
           /\ lru'[1] = k
           /\ SelectSeq(lru', LAMBDA x : x # k) = SelectSeq(lru, LAMBDA x : x # k)
           /\ evicted' = NoEviction]_vars

\* a Set has just replaced an entry of a cache at capacity, at a later time
\* than the first Set
C20_Witness ==
    /\ reply.op = "Set"
    /\ reply.existed
    /\ Len(lru) = maxSize
    /\ Cardinality(DOMAIN items) = maxSize
    /\ lru[1] = reply.key
    /\ cacheNow > 0
    /\ items[reply.key] = [value |-> reply.data, expiresAt |-> cacheNow + reply.ttl]

\* C21: while the MemoryCache has not been closed, every stored entry that
\* has expired is eventually removed, by cleanupExpired when no caller
\* touches its key again (a Set of the key stores a new entry in its place),
\* and a pass of cleanupExpired removes expired entries only and leaves the
\* others and their order as they were.
C21_SweepRemovesExpired ==
    /\ \A k \in CacheKeys :
         (k \in DOMAIN items /\ Expired(items[k]) /\ ~done)
            ~> (k \notin DOMAIN items \/ ~Expired(items[k]) \/ done)
    /\ [][MemSweep =>
            /\ \A k \in DOMAIN items \ DOMAIN items' : Expired(items[k])
            /\ \A k \in DOMAIN items' : k \in DOMAIN items /\ items'[k] = items[k]
            /\ \A k \in DOMAIN items : Expired(items[k]) => k \notin DOMAIN items'
            /\ lru' = SelectSeq(lru, LAMBDA x : x \in DOMAIN items')]_vars

\* a pass of cleanupExpired has just removed an expired entry and kept an
\* entry that has not expired
C21_Witness ==
    /\ reply.op = "Sweep"
    /\ reply.existed
    /\ ~done
    /\ items # NoItems
    /\ Len(lru) < maxSize
    /\ \A k \in DOMAIN items : ~Expired(items[k])

\* the goroutine of Start is inside runSync
Running == pc \in {"resolve", "check", "fetch", "save", "meta", "meta2", "sleep"}
\* the goroutine of Start is in its select
Idle == pc = "wait"

CeilDiv(a, b) == (a + b - 1) \div b

\* the time from the first permitted call to the last
Took == permits[Len(permits)] - permits[1]

C24_SequentialSpacing ==
    /\ lastRequest = ZeroTime => (sleepers = EmptyBag /\ permits = <<>>)
    /\ \A k \in 1..Len(permits) :
          permits[k] - permits[1] >= (k - 1) * RequiredGap
    /\ Len(permits) >= 12 => permits[12] - permits[1] >= 66

\* twelve calls in sequence, the first permitted at once at second 0 and the
\* twelfth 66 s later
C24_Witness ==
    /\ Len(permits) = 12
    /\ permits[1] = 0
    /\ permits[12] = 66
    /\ lastRequest = 66

\* a call leaves the sleep of doRequest
LeavesWait == BagCardinality(sleepers') < BagCardinality(sleepers)

\* C25: when the context has been cancelled, a call suspended in the wait of
\* the rate limiter leaves the wait without recording a request and without
\* going on to the transport call.
C25_CancelAbortsWait ==
    [][(ctxDone /\ LeavesWait) =>
          (lastRequest' = lastRequest /\ permits' = permits)]_vars

\* C26: whatever the backend of the CacheManager is and holds (none, a
\* Redis that answers or fails, a MemoryCache; empty, filled, emptied), each
\* freshness decision of the Scheduler is NeedsRefresh of what GetMetadata
\* returns from cache_metadata at that time, the sync starts exactly when it
\* is true, and a call that only fills the backend changes nothing the
\* Scheduler reads.
C26_FreshnessIgnoresCache ==
    [][/\ (CheckStale \/ CheckFresh) =>
             \E l \in GetMetadata(cacheMetadata, curType, curCode) :
                /\ decision'.made
                /\ decision'.at = schedNow
                /\ decision'.md = l.md
                /\ decision'.err = l.err
                /\ decision'.result = NeedsRefresh(l.md, l.err)
                /\ (pc' = "fetch") = NeedsRefresh(l.md, l.err)
       /\ mgrReply' # mgrReply => UNCHANGED schedVars]_vars

\* the competition has just been found stale for want of a FreshnessRecord
\* while the Redis backend holds its key, unexpired
C26_Witness ==
    /\ redis.kind = "redis"
    /\ decision.made
    /\ decision.entityType = "competition"
    /\ decision.result
    /\ ~decision.err
    /\ decision.md = <<>>
    /\ pc = "fetch"
    /\ \E k \in FreshKeys : k \in DOMAIN store /\ ~ExpiredAt(store[k], cacheNow)

\* C27: every row of cache_metadata has expiresAt >= cachedAt and the TTL
\* GetCacheTTL yields is positive, whatever CACHE_TTL_DAYS holds.
C27_ExpiresNotBeforeCached ==
    /\ CacheTTL > 0
    /\ \A r \in BagToSet(cacheMetadata) : r.expiresAt >= r.cachedAt

C29_HashOfFetchedPayload ==
    (pc = "sleep" /\ hasCacheManager /\ payload # NoPayload
        /\ failure[cur] = "none") =>
        \A r \in RowsOf(cacheMetadata, curType, curCode) :
            r.dataHash = ComputeDataHash(payload)

\* C30: in a tick in which saving a match or a team of a competition failed,
\* SetMetadata does not write the "matches" FreshnessRecord of that
\* competition.
C30_MatchesKeptStale ==
    \A i \in 1..Len(CompetitionList) :
        failure[<<"matches", CompetitionList[i]>>] = "persist"
            => metaWrites[<<"matches", CompetitionList[i]>>] = 0

\* C31: an entity that needsRefresh found fresh in a tick is left alone in
\* that tick: the fetch, the repository call, SetMetadata and the pacing
\* sleep are only ever run for an entity found stale, and the step that
\* finds an entity fresh goes straight on to the next check (or to the wait
\* for the ticker) and writes nothing.
C31_FreshEntityUntouched ==
    [][/\ (FetchOk \/ FetchFails \/ Save \/ SetMetadataOfPayload
              \/ SetMetadataAfterSync \/ Sleep) => checked[cur] = "stale"
       /\ CheckFresh => /\ pc' \in {"check", "wait"}
                        /\ cacheMetadata' = cacheMetadata
                        /\ metaWrites' = metaWrites
                        /\ payload' = NoPayload]_vars

\* the competition was found fresh in this tick and nothing was done for it,
\* while its matches, found stale, are being fetched
C31_Witness ==
    /\ pc = "fetch"
    /\ curType = "matches"
    /\ checked[<<"competition", curCode>>] = "fresh"
    /\ checked[cur] = "stale"
    /\ metaWrites[<<"competition", curCode>>] = 0
    /\ failure[<<"competition", curCode>>] = "none"

\* the entity has a FreshnessRecord that has not expired
HasFreshRecord(e) ==
    \E r \in RowsOf(cacheMetadata, e[1], e[2]) : ~NeedsRefresh(<<r>>, FALSE)

\* the repository call of the sync in hand succeeds
SaveSucceeds == Save /\ failure' = failure

\* the SetMetadata call of the sync in hand writes its row
MetadataWritten ==
    (SetMetadataOfPayload \/ SetMetadataAfterSync) /\ metaWrites' # metaWrites

\* C32: with a cache manager, ticks that keep coming and fetches, repository
\* calls and SetMetadata statements that fail only for a time, an entity
\* whose FreshnessRecord is missing or has expired eventually has one that has
\* not expired.
C32_EventuallyFresh ==
    \A e \in AllEntities :
        (hasCacheManager /\ ~HasFreshRecord(e)) ~> HasFreshRecord(e)

\* the record of the competition had expired and a later tick has written it
\* again
C32_Witness ==
    /\ hasCacheManager
    /\ schedNow = SchedMaxTime
    /\ metaWrites[Tracked] = 1
    /\ HasFreshRecord(Tracked)
    /\ \E r \in RowsOf(cacheMetadata, Tracked[1], Tracked[2]) :
          r.cachedAt = SchedMaxTime

\* C33: whenever the standings of a competition have a FreshnessRecord that
\* has not expired, their payload is held by the backend under the key of the
\* cached read path, or by the repository.
C33_FreshStandingsStored ==
    \A i \in 1..Len(CompetitionList) :
        (hasCacheManager /\ HasFreshRecord(<<"standings", CompetitionList[i]>>))
            => \/ /\ CachedKey("standings", CompetitionList[i]) \in DOMAIN store
                  /\ ~ExpiredAt(store[CachedKey("standings", CompetitionList[i])],
                                cacheNow)
               \/ CompetitionList[i] \in DurableStandings

\* C34: when InvalidateEntity has returned nil for an entity, the backend
\* holds nothing under the key where the cached read path keeps that entity.
C34_InvalidatedKeyAbsent ==
    [][\A e \in ReadEntities :
          InvalidateEntity(e[1], e[2])
              => CachedKey(e[1], e[2]) \notin DOMAIN store']_vars

\* C38: a call of InvalidateEntity whose DELETE fails returns the error and
\* leaves cache_metadata and the backend as they were; a call that returns
\* nil leaves neither a FreshnessRecord of the entity nor an entry of the
\* entity in the backend, under the key of InvalidateEntity or under the key
\* of the cached read path.
C38_AllOrNothing ==
    [][\A e \in ReadEntities :
          /\ InvalidateEntityFails(e[1], e[2])
                => /\ mgrReply'.err
                   /\ cacheMetadata' = cacheMetadata
                   /\ store' = store
          /\ InvalidateEntity(e[1], e[2])
                => /\ RowsOf(cacheMetadata', e[1], e[2]) = {}
                   /\ RedisKey(e[1], e[2]) \notin DOMAIN store'
                   /\ CachedKey(e[1], e[2]) \notin DOMAIN store']_vars

\* runSync is inside its loop over the competitions
InLoop == pc \in {"check", "fetch", "save", "meta", "meta2", "sleep"}

\* the place of sub-resource t of the i-th competition in the order of a tick
Pos(i, t) == (i - 1) * Len(EntityTypes) + t

\* C35: within a tick the competitions are gone through in the order of the
\* list, one entity at a time, each as competition, then matches, then
\* standings: the entities before the one in hand have been checked, those
\* after it have not, and runSync moves from an entity to the next in that
\* order only; with configured codes the list is the configured one and the
\* steps that call upstream for the list are not taken.
C35_ProcessingOrder ==
    /\ [](InLoop =>
            \A i \in 1..Len(competitions), t \in 1..Len(EntityTypes) :
                LET e == <<EntityTypes[t], competitions[i]>>
                IN  /\ Pos(i, t) < Pos(ci, et) => checked[e] # "pending"
                    /\ Pos(i, t) > Pos(ci, et) => checked[e] = "pending"
                    /\ Pos(i, t) = Pos(ci, et)
                          => ((checked[e] = "pending") <=> (pc = "check")))
    /\ [][/\ (pc = "resolve" /\ Len(competitionCodes) > 0)
                => /\ competitions' = competitionCodes
                   /\ pc' = "check" /\ ci' = 1 /\ et' = 1
          /\ (ResolveFetched \/ ResolveFailed) => Len(competitionCodes) = 0
          /\ (InLoop /\ <<ci, et>>' # <<ci, et>>)
                => /\ competitions' = competitions
                   /\ IF Pos(ci, et) < Len(competitions) * Len(EntityTypes)
                        THEN /\ pc' = "check"
                             /\ ci' \in 1..Len(competitions)
                             /\ et' \in 1..Len(EntityTypes)
                             /\ Pos(ci', et') = Pos(ci, et) + 1
                        ELSE pc' = "wait"]_vars

\* the standings of the second configured competition are about to be
\* checked, the five entities before them done
C35_Witness ==
    /\ competitionCodes = OrderList
    /\ competitions = OrderList
    /\ pc = "check"
    /\ ci = Len(OrderList)
    /\ et = Len(EntityTypes)
    /\ checked[<<"matches", OrderList[2]>>] # "pending"

\* C37: when no codes are configured and the upstream call for the list of
\* competitions fails, runSync returns at once: no entity is checked or
\* synced and no FreshnessRecord is written in that tick, and Start waits for
\* its ticker, which starts the next tick.
C37_ResolveFailureSkipsTick ==
    /\ [][ResolveFailed =>
            /\ pc' = "wait"
            /\ competitions' = <<>>
            /\ cacheMetadata' = cacheMetadata
            /\ checked' = checked
            /\ failure' = failure
            /\ metaWrites' = metaWrites]_vars
    /\ []((pc = "wait" /\ competitions = <<>>) =>
            /\ \A e \in LoggedEntities :
                  checked[e] = "pending" /\ metaWrites[e] = 0
            /\ ENABLED TickerFires)

\* the list could not be fetched in this tick, after a tick that had synced
\* the competitions upstream listed
C37_Witness ==
    /\ competitionCodes = <<>>
    /\ pc = "wait"
    /\ competitions = <<>>
    /\ cacheMetadata # EmptyBag

\* C36: once Start has been called, and every step of a sync in flight
\* returns, a Stop or a cancellation of the context leads to the return of
\* Start; after the select has taken the case of stopChan or of ctx.Done()
\* no tick starts any more.
C36_StartReturns ==
    /\ ((stopRequested \/ ctxDone) /\ pc # "new") ~> (pc = "exited")
    /\ [][LoopExits => pc' = "exited"]_vars
    /\ [](pc = "exited" => ~ENABLED (TickerFires \/ SchedulerStart))

\* Start has returned on the cancellation of its context, after a tick whose
\* fetches the cancelled context made fail
C36_Witness ==
    /\ pc = "exited"
    /\ ctxDone
    /\ ~stopRequested
    /\ failure[Tracked] = "fetch"

\* C39: Stop can be called in any state and any number of times: no call of
\* it panics, and a call after the first changes nothing.
C39_StopIsSafe ==
    /\ [](pc # "panicked")
    /\ [][StopAgain => UNCHANGED <<schedVars, lifeVars>>]_vars

(***************************************************************************)
(* websocket: the events of Hub.Run and the handler of each connection     *)
(***************************************************************************)
ClientIds == 1..MaxClients
Rooms == 1..MaxRooms

\* a connection that has not been made: HandleConnection makes its Client
\* with an open Send channel and no subscriptions
NoConnection ==
    [conn |-> "none", closed |-> FALSE, queued |-> 0, subscriptions |-> {}]

\* NewHub, and no connection yet
InitHub ==
    /\ hubClients = {}
    /\ hubRooms = <<>>
    /\ wsClient = [c \in ClientIds |-> NoConnection]
    /\ hubFault = "none"

\* the hub and its clients as one value
HubNow ==
    [clients |-> hubClients, rooms |-> hubRooms, ws |-> wsClient,
     fault |-> hubFault]

\* the hub becomes h, the handler of connection c moving to conn
HubBecomes(h, c, conn) ==
    /\ hubClients' = h.clients
    /\ hubRooms' = h.rooms
    /\ wsClient' = [h.ws EXCEPT ![c].conn = conn]
    /\ hubFault' = h.fault
    /\ UNCHANGED notWsVars

\* select { case client.Send <- message: default: }: a send on a closed
\* channel panics, a full buffer takes the default case
SendTo(h, c) ==
    IF h.fault # "none" THEN h
    ELSE IF h.ws[c].closed THEN [h EXCEPT !.fault = "send on closed channel"]
    ELSE IF h.ws[c].queued < SendBuffer
           THEN [h EXCEPT !.ws[c].queued = @ + 1]
           ELSE h

\* close(client.Send): the close of a closed channel panics
CloseSend(h, c) ==
    IF h.ws[c].closed
      THEN [h EXCEPT !.fault = "close of closed channel"]
      ELSE [h EXCEPT !.ws[c].closed = TRUE]

\* delete(clients, client) in each room of the set, a room left empty being
\* deleted from Hub.rooms
WithoutClient(rooms, c, from) ==
    LET left(r) == IF r \in from THEN rooms[r] \ {c} ELSE rooms[r]
        kept == {r \in DOMAIN rooms : left(r) # {}}
    IN  [r \in kept |-> left(r)]

registerClient(h, c) == [h EXCEPT !.clients = @ \cup {c}]

unregisterClient(h, c) ==
    IF c \notin h.clients THEN h
    ELSE LET closed == CloseSend([h EXCEPT !.clients = @ \ {c}], c)
         IN  IF closed.fault # "none" THEN closed
             ELSE [closed EXCEPT
                      !.rooms = WithoutClient(@, c, h.ws[c].subscriptions)]

\* one iteration of the loop of broadcastToAll
BroadcastOne(h, c) ==
    IF h.fault # "none" THEN h
    ELSE IF h.ws[c].closed THEN [h EXCEPT !.fault = "send on closed channel"]
    ELSE IF h.ws[c].queued < SendBuffer
           THEN [h EXCEPT !.ws[c].queued = @ + 1]
           ELSE [CloseSend(h, c) EXCEPT !.clients = @ \ {c}]

\* for client := range h.clients of broadcastToAll, each iteration touching
\* its own client
RECURSIVE BroadcastEach(_, _)
BroadcastEach(h, cs) ==
    IF cs = {} THEN h
    ELSE LET c == CHOOSE x \in cs : TRUE
         IN  BroadcastEach(BroadcastOne(h, c), cs \ {c})

\* for client := range clients of broadcastToRoom
RECURSIVE SendEach(_, _)
SendEach(h, cs) ==
    IF cs = {} THEN h
    ELSE LET c == CHOOSE x \in cs : TRUE
         IN  SendEach(SendTo(h, c), cs \ {c})

broadcastToAll(h) == BroadcastEach(h, h.clients)

broadcastToRoom(h, r) ==
    IF r \in DOMAIN h.rooms THEN SendEach(h, h.rooms[r]) ELSE h

subscribeToRoom(h, c, r) ==
    LET members == IF r \in DOMAIN h.rooms THEN h.rooms[r] ELSE {}
        joined == [x \in DOMAIN h.rooms \cup {r} |->
                      IF x = r THEN members \cup {c} ELSE h.rooms[x]]
    IN  SendTo([h EXCEPT !.ws[c].subscriptions = @ \cup {r},
                         !.rooms = joined], c)

unsubscribeFromRoom(h, c, r) ==
    SendTo([h EXCEPT !.ws[c].subscriptions = @ \ {r},
                     !.rooms = WithoutClient(@, c, {r} \cap DOMAIN @)], c)

\* HandleConnection up to readPump: the Client is made and registered
HandleConnection(c) ==
    /\ hubFault = "none"
    /\ wsClient[c].conn = "none"
    /\ HubBecomes(registerClient(HubNow, c), c, "reading")

\* readPump reads a subscribe message and handleClientMessage passes it on
ClientSubscribes(c, r) ==
    /\ hubFault = "none"
    /\ wsClient[c].conn = "reading"
    /\ HubBecomes(subscribeToRoom(HubNow, c, r), c, "reading")

\* readPump reads an unsubscribe message
ClientUnsubscribes(c, r) ==
    /\ hubFault = "none"
    /\ wsClient[c].conn = "reading"
    /\ HubBecomes(unsubscribeFromRoom(HubNow, c, r), c, "reading")

\* readPump fails to read (the peer left, or writePump closed the
\* connection) and its deferred call unregisters the client
ReadPumpEnds(c) ==
    /\ hubFault = "none"
    /\ wsClient[c].conn = "reading"
    /\ HubBecomes(unregisterClient(HubNow, c), c, "closing")

\* HandleConnection returns and its deferred call unregisters the client
\* again
HandleConnectionReturns(c) ==
    /\ hubFault = "none"
    /\ wsClient[c].conn = "closing"
    /\ HubBecomes(unregisterClient(HubNow, c), c, "gone")

\* writePump receives a message from Send and writes it to the connection
writePump(c) ==
    /\ hubFault = "none"
    /\ wsClient[c].conn # "none"
    /\ wsClient[c].queued > 0
    /\ wsClient' = [wsClient EXCEPT ![c].queued = @ - 1]
    /\ UNCHANGED <<hubClients, hubRooms, hubFault, notWsVars>>

\* Hub.Run receives a message of Broadcast
Broadcast ==
    /\ hubFault = "none"
    /\ LET h == broadcastToAll(HubNow)
       IN  /\ hubClients' = h.clients
           /\ hubRooms' = h.rooms
           /\ wsClient' = h.ws
           /\ hubFault' = h.fault
    /\ UNCHANGED notWsVars

\* Hub.Run receives a message of BroadcastToRoom
BroadcastToRoom(r) ==
    /\ hubFault = "none"
    /\ LET h == broadcastToRoom(HubNow, r)
       IN  /\ hubClients' = h.clients
           /\ hubRooms' = h.rooms
           /\ wsClient' = h.ws
           /\ hubFault' = h.fault
    /\ UNCHANGED notWsVars

NextHub ==
    \/ \E c \in ClientIds :
          \/ HandleConnection(c)
          \/ ReadPumpEnds(c)
          \/ HandleConnectionReturns(c)
          \/ writePump(c)
          \/ \E r \in Rooms : ClientSubscribes(c, r) \/ ClientUnsubscribes(c, r)
    \/ Broadcast
    \/ \E r \in Rooms : BroadcastToRoom(r)

(***************************************************************************)
(* Claims about the websocket hub                                          *)
(***************************************************************************)
\* C40: the hub never sends on a Send channel that is closed and never closes
\* one twice, whatever the interleaving of its events; that is, every client
\* in a room is a registered client
C40_RoomsHoldRegisteredClients ==
    /\ hubFault = "none"
    /\ \A r \in DOMAIN hubRooms : hubRooms[r] \subseteq hubClients

(***************************************************************************)
(* Specifications                                                          *)
(***************************************************************************)
\* the Scheduler before Start, with the default TTL and a cache manager
IdleSched ==
    /\ InitSched
    /\ CacheTTL = DefaultTtlDays
    /\ hasCacheManager

\* the Client and the MemoryCache after construction, the Scheduler idle
InitIdle == InitClient /\ InitCache /\ IdleSched /\ IdleCoord /\ InitLife
        /\ InitHub

\* concurrent callers of one Client
SpecClient == InitIdle /\ [][NextClient]_vars

\* concurrent callers of one Client whose context can be cancelled
NextCancel ==
    \/ doRequestPass
    \/ doRequestSleep
    \/ doRequestWake
    \/ ClientTick
    \/ CancelContext

SpecCancel == InitIdle /\ [][NextCancel]_vars

\* one caller of one Client, its calls in sequence
SpecSequential == InitIdle /\ [][NextSequential]_vars

\* the callers and the sweep of one MemoryCache
SpecCache == InitIdle /\ [][NextCache]_vars

\* the Scheduler with its CacheManager, and callers of InvalidateEntity
Init == InitClient /\ InitCache /\ InitSched /\ IdleCoord /\ InitLife
        /\ InitHub

Spec == Init /\ [][Next]_vars

\* the Scheduler started with CACHE_TTL_DAYS at the edge of a time.Duration
InitLargeTtl ==
    InitClient /\ InitCache /\ InitSchedWith(LargeEnvValues) /\ IdleCoord
        /\ InitLife /\ InitHub

SpecLargeTtl == InitLargeTtl /\ [][Next]_vars

\* the Scheduler and a caller of InvalidateEntity for the competition, with
\* the history of the invalidations
InitInvalidate ==
    InitClient /\ InitCacheKeeping("invalidations") /\ IdleSched /\ IdleCoord
        /\ InitLife /\ InitHub

NextInvalidate ==
    \/ SchedulerStart
    \/ TickerFires
    \/ ResolveConfigured
    \/ CheckStale
    \/ CheckFresh
    \/ FetchOk
    \/ FetchFails
    \/ Save
    \/ SetMetadataOfPayload
    \/ SetMetadataAfterSync
    \/ Sleep
    \/ InvalidateEntity(Tracked[1], Tracked[2])
    \/ SchedTick

SpecInvalidate == InitInvalidate /\ [][NextInvalidate]_vars

\* the Scheduler with a cache manager and a TTL of MaxTtlDays
InitEventually ==
    /\ Init
    /\ hasCacheManager
    /\ CacheTTL = MaxTtlDays

\* upstream and the database have recovered: from the last day on no fetch,
\* repository call or SetMetadata statement fails
Recovered == schedNow = SchedMaxTime

\* the steps of the Scheduler, with failures until upstream and the database
\* have recovered
SyncStep ==
    \/ SchedulerStart
    \/ TickerFires
    \/ ResolveConfigured
    \/ CheckStale
    \/ CheckFresh
    \/ FetchOk
    \/ FetchFails /\ ~Recovered
    \/ Save /\ (Recovered => SaveSucceeds)
    \/ SetMetadataOfPayload /\ (Recovered => MetadataWritten)
    \/ SetMetadataAfterSync /\ (Recovered => MetadataWritten)
    \/ Sleep

NextEventually == SyncStep \/ SchedTick

\* the ticker keeps firing (Start, lines 38-44), every step of runSync
\* returns, and time passes
SpecEventually ==
    InitEventually /\ [][NextEventually]_vars
        /\ WF_vars(SyncStep) /\ WF_vars(SchedTick)

\* the MemoryCache with the history of its calls
InitCalls ==
    InitClient /\ InitCacheKeeping("calls") /\ IdleSched /\ IdleCoord /\ InitLife
        /\ InitHub

SpecCalls == InitCalls /\ [][NextCache]_vars

\* the MemoryCache whose cleanupExpired goroutine gets its ticks: the ticker
\* of line 155 fires every minute until done is closed
SpecSweep == InitCalls /\ [][NextCache]_vars /\ WF_vars(MemSweep)

\* the Scheduler with a CacheManager whose backend is the Redis that answered
\* the ping, none because it did not, or the MemoryCache of the server, and
\* callers that fill and empty that backend
InitFresh ==
    /\ InitClient /\ InitCache /\ InitSched /\ InitLife /\ InitHub
    /\ hasCacheManager
    /\ CacheTTL = MaxTtlDays
    /\ newCache \in {[config |-> c, result |-> NewCache(c)] : c \in FreshConfigs}
    /\ redis = newCache.result.cache
    /\ store = NoItems
    /\ mgrReply = NoMgrReply

\* InvalidateEntity of the competition is what empties the backend
NextFresh ==
    \/ SchedulerStart
    \/ TickerFires
    \/ ResolveConfigured
    \/ CheckStale
    \/ CheckFresh
    \/ FetchOk
    \/ FetchFails
    \/ Save
    \/ SetMetadataOfPayload
    \/ SetMetadataAfterSync
    \/ Sleep
    \/ InvalidateEntity("competition", CompetitionList[1])
    \/ SchedTick
    \/ \E k \in FreshKeys : CoordSet(k, "x", MaxTTL)

SpecFresh == InitFresh /\ [][NextFresh]_vars

\* the Scheduler, readers that go through a CachedClient on the backend of
\* the CacheManager, and callers of InvalidateEntity, all within one day
InitRead ==
    /\ InitFresh
    /\ redis # NoCache

NextRead ==
    \/ SchedulerStart
    \/ TickerFires
    \/ ResolveConfigured
    \/ CheckStale
    \/ CheckFresh
    \/ FetchOk
    \/ FetchFails
    \/ Save
    \/ SetMetadataOfPayload
    \/ SetMetadataAfterSync
    \/ Sleep
    \/ \E e \in ReadEntities : CachedRead(e[1], e[2])
    \/ \E e \in ReadEntities : InvalidateEntity(e[1], e[2])
    \/ \E e \in ReadEntities : InvalidateEntityFails(e[1], e[2])

SpecRead == InitRead /\ [][NextRead]_vars

\* the Scheduler over two competitions, configured or listed by upstream
InitOrder == InitClient /\ InitCache /\ InitSchedOrder /\ IdleCoord /\ InitLife
        /\ InitHub

NextOrder ==
    \/ SchedulerStart
    \/ TickerFires
    \/ ResolveConfigured
    \/ ResolveFetched
    \/ ResolveFailed
    \/ CheckStale
    \/ CheckFresh
    \/ FetchOk
    \/ FetchFails
    \/ Save
    \/ SetMetadataOfPayload
    \/ SetMetadataAfterSync
    \/ Sleep

SpecOrder == InitOrder /\ [][NextOrder]_vars

\* the factory and the callers of CacheManager.Get, Set and Delete
InitCoordinator == InitClient /\ InitCache /\ IdleSched /\ InitCoord /\ InitLife
        /\ InitHub

SpecCoord == InitCoordinator /\ [][NextCoord]_vars

\* the Scheduler, Stop and the cancellation of its context
SpecLifecycle == Init /\ [][NextLifecycle]_vars

\* the Scheduler and callers that call Stop more than once
NextStop == NextLifecycle \/ StopAgain

SpecStop == Init /\ [][NextStop]_vars

\* the steps of a sync in flight
RunSyncStep ==
    \/ ResolveConfigured
    \/ CheckStale
    \/ CheckFresh
    \/ FetchOk
    \/ FetchFails
    \/ Save
    \/ SetMetadataOfPayload
    \/ SetMetadataAfterSync
    \/ Sleep

\* every step of a sync in flight returns, and the select of Start (lines
\* 42-51), which picks at random among the cases that are ready, does not
\* pass over stopChan and ctx.Done() for ever
SpecStopping ==
    Init /\ [][NextLifecycle]_vars
        /\ WF_vars(RunSyncStep) /\ SF_vars(LoopExits)

\* the websocket hub, its connections and their broadcasts
SpecHub == InitIdle /\ [][NextHub]_vars

====
